---- MODULE Spec2Model ----
(***************************************************************************)
(* Flow Learning & Replay Engine (backend/checkout-agent).                 *)
(*                                                                         *)
(* Part 1: the Flow Store (flow_store.py): one JSON file per domain,       *)
(* load_flow / save_flow / record_failure / delete_flow, and the Health    *)
(* Monitor check_flow_health, a pure function of a stored record.          *)
(*                                                                         *)
(* Encoding of Python values:                                              *)
(*   dict            a function whose DOMAIN is the set of keys present    *)
(*   list            a sequence                                            *)
(*   Optional[T]     a set with at most one element: None is {}, a value v *)
(*                   is {v}                                                *)
(*   str             a TLA+ string where only identity matters (selectors, *)
(*                   platform tags); a sequence of one-character strings   *)
(*                   where the code looks inside it (domains, URLs); a     *)
(*                   sequence of character codes where the code orders or  *)
(*                   cuts it (timestamps, error messages)                  *)
(***************************************************************************)
EXTENDS Integers, Sequences, FiniteSets, TLC

VARIABLES
    disk,       \* FLOWS_DIR: path of a flow file -> content of that file
    now,        \* the wall clock read by datetime.now(timezone.utc)
    ret,        \* outcome of the most recent call: operation, value, exception
    hist,       \* per path: the save_flow ("S") / record_failure ("F") calls made since Init or the last deletion
    supplied,   \* per path: what the save_flow calls of hist have supplied
    arg,        \* the argument of the function under study (extractor, replay compiler, fill engine)
    out,        \* its result, None until it has been applied
    run,        \* the most recent run of run_checkout: its locals and its result
    page        \* the document of the browser tab and the replay automaton injected in it

\* the variables of the engine around the store
engineVars == <<arg, out, run, page>>

vars == <<disk, now, ret, hist, supplied, arg, out, run, page>>

----------------------------------------------------------------------------
(* Bounds of the model *)

MaxOps == 3         \* save_flow / record_failure calls explored per path between deletions
MaxTime == 1        \* clock ticks explored (half seconds)
MaxCount == 5       \* largest counter value of a health-check input record

(* Program constants *)

ErrorCut == 200     \* record_failure keeps error[:200]

----------------------------------------------------------------------------
(* Python values *)

None == {}
Some(v) == {v}
The(o) == CHOOSE v \in o : TRUE

EmptyDict == [k \in {} |-> 0]

\* dict.get(key, default)
Get(d, key, default) == IF key \in DOMAIN d THEN d[key] ELSE default

\* {**new, **old}: the dict already stored wins on a key collision
MergeDict_old_wins(old, new) ==
    [k \in (DOMAIN old) \cup (DOMAIN new) |-> IF k \in DOMAIN old THEN old[k] ELSE new[k]]

\* {**old, **new}
MergeDict(old, new) ==
    [k \in (DOMAIN old) \cup (DOMAIN new) |-> IF k \in DOMAIN new THEN new[k] ELSE old[k]]

\* d[key] = value on a dict
SetKey(d, key, value) ==
    [k \in (DOMAIN d) \cup {key} |-> IF k = key THEN value ELSE d[k]]

\* s[:n]
Prefix(s, n) == IF Len(s) <= n THEN s ELSE SubSeq(s, 1, n)

\* Python's str comparison a < b: lexicographic by character code
RECURSIVE StrLess(_, _)
StrLess(a, b) ==
    IF b = <<>> THEN FALSE
    ELSE IF a = <<>> THEN TRUE
    ELSE IF Head(a) # Head(b) THEN Head(a) < Head(b)
    ELSE StrLess(Tail(a), Tail(b))

----------------------------------------------------------------------------
(* The clock: datetime.now(timezone.utc).isoformat() *)

\* Tick t is t half seconds after the epoch of the model.  isoformat() writes
\* the seconds as two digits and leaves the fraction out when the
\* microseconds are 0: "...SS+00:00" against "...SS.5+00:00".
isoformat(t) ==
    LET sec == t \div 2
        digits == <<48 + (sec \div 10), 48 + (sec % 10)>>
    IN  IF t % 2 = 0 THEN digits \o <<43>>             \* '+'
        ELSE digits \o <<46, 53, 43>>                  \* '.', '5', '+'

----------------------------------------------------------------------------
(* Domain keys: _domain_from_url and _flow_path *)

UpperCase == <<"A","B","C","D","E","F","G","H","I","J","K","L","M",
               "N","O","P","Q","R","S","T","U","V","W","X","Y","Z">>
LowerCase == <<"a","b","c","d","e","f","g","h","i","j","k","l","m",
               "n","o","p","q","r","s","t","u","v","w","x","y","z">>

LowerChar(c) ==
    IF \E i \in 1..26 : UpperCase[i] = c
    THEN LowerCase[CHOOSE i \in 1..26 : UpperCase[i] = c]
    ELSE c

\* str.lower()
Lower(s) == [i \in 1..Len(s) |-> LowerChar(s[i])]

\* c in s, for a single character c
HasChar(s, c) == \E i \in 1..Len(s) : s[i] = c

\* s.startswith(p)
StartsWith(s, p) == Len(s) >= Len(p) /\ SubSeq(s, 1, Len(p)) = p

\* s[n:] with n counted from 0
From(s, n) == IF n >= Len(s) THEN <<>> ELSE SubSeq(s, n + 1, Len(s))

\* the index of the first character of s that is in cs, Len(s) + 1 if none
FirstOf(s, cs) ==
    IF \E i \in 1..Len(s) : s[i] \in cs
    THEN CHOOSE i \in 1..Len(s) : s[i] \in cs /\ \A j \in 1..(i - 1) : s[j] \notin cs
    ELSE Len(s) + 1

\* s.replace(a, b) for single characters
ReplaceChar(s, a, b) == [i \in 1..Len(s) |-> IF s[i] = a THEN b ELSE s[i]]

\* urlparse(url).hostname for URLs without userinfo, port or brackets: the
\* scheme is the text before the first ':' when it is made of letters, the
\* network location is what follows "//" up to the next '/', '?' or '#',
\* and the hostname is the network location in lower case (None if empty).
urlparse_hostname(url) ==
    LET colon == FirstOf(url, {":"})
        isScheme == /\ colon <= Len(url)
                    /\ colon > 1
                    /\ \A i \in 1..(colon - 1) : LowerChar(url[i]) \in {LowerCase[j] : j \in 1..26}
        rest == IF isScheme THEN From(url, colon) ELSE url
        netloc == IF StartsWith(rest, <<"/", "/">>)
                  THEN LET r == From(rest, 2) IN SubSeq(r, 1, FirstOf(r, {"/", "?", "#"}) - 1)
                  ELSE <<>>
    IN  IF netloc = <<>> THEN None ELSE Some(Lower(netloc))

WwwDot == <<"w", "w", "w", ".">>

_domain_from_url(url) ==
    LET hostname == urlparse_hostname(url)
        domain == IF hostname = None THEN <<>> ELSE The(hostname)
    IN  IF StartsWith(domain, WwwDot) THEN From(domain, 4) ELSE domain

\* the first line of every store operation
domain_of(domain_or_url) ==
    IF HasChar(domain_or_url, "/") THEN _domain_from_url(domain_or_url) ELSE domain_or_url

\* the file name below FLOWS_DIR, without the ".json" suffix
_flow_path(domain) == ReplaceChar(ReplaceChar(domain, "/", "_"), ":", "_")

----------------------------------------------------------------------------
(* The files of FLOWS_DIR *)

\* What a flow file can hold, by what open() and json.load() do with it:
\*   absent      no file at the path
\*   object      JSON text of an object (a dict); data is the dict
\*   truncated   the beginning of a JSON text (an interrupted write)
\*   malformed   text that is not JSON
\*   unreadable  open() fails with an OSError
\*   non_utf8    bytes that are not valid in the text encoding
\*   non_object  JSON text of a value that is not an object (null, a list)
\* json.dump followed by json.load gives back an equal dict for the values
\* stored here (str keys; str, int, null, list and dict values).
FileKinds == {"absent", "object", "truncated", "malformed", "unreadable", "non_utf8", "non_object"}

NoFile == [kind |-> "absent", data |-> EmptyDict]
ObjectFile(flow) == [kind |-> "object", data |-> flow]
BadFile(kind) == [kind |-> kind, data |-> EmptyDict]

\* os.path.exists(path)
exists(file) == file.kind # "absent"

\* with open(path, 'r') as f: json.load(f) -- the exception raised, if any
read_exception(file) ==
    CASE file.kind = "unreadable" -> "IOError"
      [] file.kind = "non_utf8" -> "UnicodeDecodeError"
      [] file.kind \in {"truncated", "malformed"} -> "JSONDecodeError"
      [] OTHER -> "none"

\* except (json.JSONDecodeError, IOError)
Caught == {"JSONDecodeError", "IOError"}

\* the effect of open(path, 'w') and json.dump(flow, f) on a file
WriteOutcomes == {"ok", "open_fails", "partial"}

written(file, flow, outcome) ==
    CASE outcome = "ok" -> ObjectFile(flow)
      [] outcome = "partial" -> BadFile("truncated")
      [] OTHER -> file

----------------------------------------------------------------------------
(* load_flow *)

\* The value returned ({} for None) and the exception that leaves the call.
load_flow_result(file) ==
    IF ~exists(file) THEN [value |-> None, raised |-> "none"]
    ELSE LET exc == read_exception(file) IN
         IF exc # "none"
         THEN IF exc \in Caught THEN [value |-> None, raised |-> "none"]
              ELSE [value |-> None, raised |-> exc]
         ELSE IF file.kind = "non_object"
              THEN [value |-> None, raised |-> "AttributeError"]    \* flow.get on a non-dict
              ELSE [value |-> Some(file.data), raised |-> "none"]

----------------------------------------------------------------------------
(* save_flow *)

\* x or y, for an optional str x
Truthy(o) == o # None /\ The(o) # ""

\* lines 107-113: the record already on disk, {} when there is none or it cannot be read
save_flow_existing(file) ==
    IF ~exists(file) THEN [value |-> EmptyDict, raised |-> "none"]
    ELSE LET exc == read_exception(file) IN
         IF exc # "none"
         THEN IF exc \in Caught THEN [value |-> EmptyDict, raised |-> "none"]
              ELSE [value |-> EmptyDict, raised |-> exc]
         ELSE IF file.kind = "non_object"
              THEN [value |-> EmptyDict, raised |-> "AttributeError"]   \* existing.get, line 116
              ELSE [value |-> file.data, raised |-> "none"]

\* navigation_steps or existing.get(...): an empty list counts as not supplied
nav_steps_of_falsy(existing, navigation_steps) ==
    IF navigation_steps # None /\ The(navigation_steps) # <<>> THEN The(navigation_steps)
    ELSE Get(existing, "navigation_steps", <<>>)

\* line 120: use the new steps if provided, otherwise keep the existing ones
nav_steps_of(existing, navigation_steps) ==
    IF navigation_steps # None THEN The(navigation_steps)
    ELSE Get(existing, "navigation_steps", <<>>)

\* the run of failures is carried over a success
save_counters_keep_run(existing) ==
    [success_count |-> Get(existing, "success_count", 0) + 1,
     failure_count |-> Get(existing, "failure_count", 0),
     consecutive_failures |-> Get(existing, "consecutive_failures", 0)]

\* the failures are forgotten on a success
save_counters_reset_failures(existing) ==
    [success_count |-> Get(existing, "success_count", 0) + 1,
     failure_count |-> 0,
     consecutive_failures |-> 0]

\* a success is not counted
save_counters_no_success(existing) ==
    [success_count |-> Get(existing, "success_count", 0),
     failure_count |-> Get(existing, "failure_count", 0),
     consecutive_failures |-> 0]

\* lines 129-131: the counters of the record written
save_counters(existing) ==
    [success_count |-> Get(existing, "success_count", 0) + 1,
     failure_count |-> Get(existing, "failure_count", 0),
     consecutive_failures |-> 0]

\* lines 115-134: the record written
save_flow_record(existing, domain, form_selectors, payment_selectors, navigation_steps, checkout_url_pattern, platform, final_url, t) ==
    LET merged_form == MergeDict(Get(existing, "form_selectors", EmptyDict), form_selectors)
        merged_payment == MergeDict(Get(existing, "payment_selectors", EmptyDict),
                                    IF payment_selectors = None \/ The(payment_selectors) = EmptyDict
                                    THEN EmptyDict ELSE The(payment_selectors))
        nav_steps == nav_steps_of(existing, navigation_steps)
        counters == save_counters(existing)
    IN  [domain |-> domain,
         platform |-> IF Truthy(platform) THEN The(platform) ELSE Get(existing, "platform", "unknown"),
         checkout_url_pattern |-> IF Truthy(checkout_url_pattern) THEN checkout_url_pattern
                                  ELSE Get(existing, "checkout_url_pattern", None),
         navigation_steps |-> nav_steps,
         form_selectors |-> merged_form,
         payment_selectors |-> merged_payment,
         success_count |-> counters.success_count,
         failure_count |-> counters.failure_count,
         consecutive_failures |-> counters.consecutive_failures,
         last_success |-> isoformat(t),
         last_url |-> IF Truthy(final_url) THEN final_url ELSE Get(existing, "last_url", None)]

----------------------------------------------------------------------------
(* record_failure *)

\* the run of failures is not counted
record_failure_record_no_run(flow, error, t) ==
    LET counted == SetKey(flow, "failure_count", Get(flow, "failure_count", 0) + 1)
        stamped == SetKey(counted, "last_failure", isoformat(t))
    IN  IF error # None /\ The(error) # <<>>
        THEN SetKey(stamped, "last_error", Prefix(The(error), ErrorCut))
        ELSE stamped

\* the time of the failure is not written
record_failure_record_no_stamp(flow, error, t) ==
    LET counted == SetKey(SetKey(flow, "failure_count", Get(flow, "failure_count", 0) + 1),
                          "consecutive_failures", Get(flow, "consecutive_failures", 0) + 1)
    IN  IF error # None /\ The(error) # <<>>
        THEN SetKey(counted, "last_error", Prefix(The(error), ErrorCut))
        ELSE counted

\* lines 536-540: the loaded record after the updates
record_failure_record(flow, error, t) ==
    LET counted == SetKey(SetKey(flow, "failure_count", Get(flow, "failure_count", 0) + 1),
                          "consecutive_failures", Get(flow, "consecutive_failures", 0) + 1)
        stamped == SetKey(counted, "last_failure", isoformat(t))
    IN  IF error # None /\ The(error) # <<>>
        THEN SetKey(stamped, "last_error", Prefix(The(error), ErrorCut))
        ELSE stamped

----------------------------------------------------------------------------
(* check_flow_health *)

\* success_count / total_runs * 100 as the fraction <<numerator, denominator>>.
\* The float the code computes compares with 20 and 50 exactly as the fraction
\* does, and rounds to the same tenth, for every total_runs below 80.
success_rate_of(success_count, total_runs) ==
    IF total_runs > 0 THEN <<success_count * 100, total_runs>> ELSE <<0, 1>>

\* rate <= percent
RateBelow_inclusive(rate, percent) == rate[1] <= percent * rate[2]

\* rate < percent
RateBelow(rate, percent) == rate[1] < percent * rate[2]

\* round(rate, 1), in tenths (ties to even)
RoundTenths(rate) ==
    LET q == (rate[1] * 10) \div rate[2]
        r == (rate[1] * 10) % rate[2]
    IN  IF 2 * r > rate[2] \/ (2 * r = rate[2] /\ q % 2 = 1) THEN q + 1 ELSE q

\* a str value of the record that is present and not empty
HasText(flow, key) == key \in DOMAIN flow /\ flow[key] # <<>>

\* the thresholds apply from the sixth run on
threshold_status_min_runs(success_count, failure_count) ==
    LET total_runs == success_count + failure_count
        success_rate == success_rate_of(success_count, total_runs)
        status0 == "healthy"
        status1 == IF total_runs > 5 /\ RateBelow(success_rate, 50) THEN "degraded" ELSE status0
        status2 == IF total_runs > 5 /\ RateBelow(success_rate, 20) THEN "broken" ELSE status1
    IN  IF failure_count >= 3 /\ success_count = 0 THEN "broken" ELSE status2

\* lines 484-493: the status the counters give
threshold_status(success_count, failure_count) ==
    LET total_runs == success_count + failure_count
        success_rate == success_rate_of(success_count, total_runs)
        status0 == "healthy"
        status1 == IF total_runs >= 3 /\ RateBelow(success_rate, 50) THEN "degraded" ELSE status0
        status2 == IF total_runs >= 3 /\ RateBelow(success_rate, 20) THEN "broken" ELSE status1
    IN  IF failure_count >= 3 /\ success_count = 0 THEN "broken" ELSE status2

\* a failure at the very time of the last success counts as more recent
failed_after_success_or_at(flow) ==
    /\ HasText(flow, "last_failure")
    /\ HasText(flow, "last_success")
    /\ ~StrLess(flow["last_failure"], flow["last_success"])

\* lines 496-503: the last failure is more recent than the last success
failed_after_success(flow) ==
    /\ HasText(flow, "last_failure")
    /\ HasText(flow, "last_success")
    /\ StrLess(flow["last_success"], flow["last_failure"])

\* re-learn from the third failure in a row
too_many_failures_from_third(consecutive_failures) == consecutive_failures >= 3

\* line 507: consecutive failures trigger re-learn
too_many_failures(consecutive_failures) == consecutive_failures >= 2

check_flow_health(flow) ==
    LET nav_count == Len(Get(flow, "navigation_steps", <<>>))
        form_count == Cardinality(DOMAIN Get(flow, "form_selectors", EmptyDict))
        pay_count == Cardinality(DOMAIN Get(flow, "payment_selectors", EmptyDict))
        success_count == Get(flow, "success_count", 0)
        failure_count == Get(flow, "failure_count", 0)
        total_runs == success_count + failure_count
        success_rate == success_rate_of(success_count, total_runs)
        status == threshold_status(success_count, failure_count)
        consecutive_failures == Get(flow, "consecutive_failures", 0)
    IN  [status |-> IF too_many_failures(consecutive_failures) THEN "needs_relearn" ELSE status,
         nav_steps |-> nav_count,
         form_selectors |-> form_count,
         payment_selectors |-> pay_count,
         success_count |-> success_count,
         failure_count |-> failure_count,
         success_rate |-> RoundTenths(success_rate),
         needs_relearn |-> (failed_after_success(flow) \/ too_many_failures(consecutive_failures)),
         consecutive_failures |-> consecutive_failures]

----------------------------------------------------------------------------
(* Texts: where the code searches, cuts or joins a str it is a TLA+ string, *)
(* with Len, \o, SubSeq, Head and Tail                                      *)

TextCut == 100      \* a step keeps text[:100] and aria-label[:100]
KeyCut == 20        \* the dedup key holds text[:20]
WaitCap == 2        \* a wait step keeps min(seconds, 2)

\* w in s
Contains(s, w) == \E i \in 1..(Len(s) - Len(w) + 1) : SubSeq(s, i, i + Len(w) - 1) = w

\* str.lower() of a text
RECURSIVE str_lower(_)
str_lower(s) == IF s = "" THEN "" ELSE LowerChar(Head(s)) \o str_lower(Tail(s))

\* the length of the first word of a text that starts with a word
WordEnd(s) ==
    CHOOSE n \in 1..Len(s) :
        /\ \A j \in 1..n : SubSeq(s, j, j) # " "
        /\ n = Len(s) \/ SubSeq(s, n + 1, n + 1) = " "

\* str.split(): the words between runs of blanks
RECURSIVE split(_)
split(s) ==
    IF s = "" THEN <<>>
    ELSE IF Head(s) = " " THEN split(Tail(s))
    ELSE <<SubSeq(s, 1, WordEnd(s))>> \o split(SubSeq(s, WordEnd(s) + 1, Len(s)))

\* any(w in text for w in words)
any_in(text, words) == \E w \in words : Contains(text, w)

----------------------------------------------------------------------------
(* The Step Extractor: extract_navigation_steps                            *)
(*                                                                         *)
(* An element is [attributes, ax_name, node_name]; a missing attribute     *)
(* dict, name or tag is the empty one, as "x or {}" and "x or ''" make it. *)
(* An action of the trace is a dict: the name of the action with its       *)
(* parameters, and "interacted_element" with an optional element.          *)

\* attrs.get(key) as a text, empty when the key is absent
attr(attrs, key) == Get(attrs, key, "")

_build_selector(node_name, attrs) ==
    LET tag == str_lower(node_name)
        specific == SelectSeq(split(attr(attrs, "class")),
                              LAMBDA c : Len(c) > 3 /\ ~StartsWith(c, "_"))
    IN  IF attr(attrs, "id") # "" THEN Some("#" \o attr(attrs, "id"))
        ELSE IF attr(attrs, "name") # "" /\ tag # ""
             THEN Some(tag \o "[name=\"" \o attr(attrs, "name") \o "\"]")
        ELSE IF attr(attrs, "data-testid") # ""
             THEN Some("[data-testid=\"" \o attr(attrs, "data-testid") \o "\"]")
        ELSE IF attr(attrs, "data-test") # ""
             THEN Some("[data-test=\"" \o attr(attrs, "data-test") \o "\"]")
        ELSE IF attr(attrs, "data-cy") # ""
             THEN Some("[data-cy=\"" \o attr(attrs, "data-cy") \o "\"]")
        ELSE IF attr(attrs, "aria-label") # ""
             THEN Some("[aria-label=\"" \o attr(attrs, "aria-label") \o "\"]")
        ELSE IF attr(attrs, "class") # "" /\ tag # "" /\ specific # <<>>
             THEN Some(tag \o "." \o specific[1])
        ELSE None

\* continue and confirm tried before every other category
_guess_purpose_continue_first(text, attrs, url) ==
    LET text_lower == str_lower(text)
    IN  IF any_in(text_lower, {"verder", "continue", "next", "doorgaan", "volgende"})
        THEN "continue"
        ELSE IF any_in(text_lower, {"bevestigen", "confirm", "accept"})
        THEN "confirm"
        ELSE IF any_in(text_lower, {"accept", "accepteren", "cookie", "consent", "agree"})
        THEN "cookie_consent"
        ELSE IF any_in(text_lower, {"add to cart", "in winkelwagen", "bestellen", "buy", "kopen", "wil bestellen"})
        THEN "add_to_cart"
        ELSE IF any_in(text_lower, {"checkout", "kassa", "winkelwagen", "cart", "verder naar bestellen", "ga bestellen"})
        THEN "go_to_checkout"
        ELSE IF any_in(text_lower, {"guest", "zonder registratie", "zonder account", "continue without"})
        THEN "guest_checkout"
        ELSE IF any_in(text_lower, {"close", "sluiten", "dismiss", "×"})
        THEN "close_popup"
        ELSE IF any_in(text_lower, {"creditcard", "credit card", "betalen", "pay"})
        THEN "select_payment"
        ELSE "other"

_guess_purpose(text, attrs, url) ==
    LET text_lower == str_lower(text)
    IN  IF any_in(text_lower, {"accept", "accepteren", "cookie", "consent", "agree"})
        THEN "cookie_consent"
        ELSE IF any_in(text_lower, {"add to cart", "in winkelwagen", "bestellen", "buy", "kopen", "wil bestellen"})
        THEN "add_to_cart"
        ELSE IF any_in(text_lower, {"checkout", "kassa", "winkelwagen", "cart", "verder naar bestellen", "ga bestellen"})
        THEN "go_to_checkout"
        ELSE IF any_in(text_lower, {"guest", "zonder registratie", "zonder account", "continue without"})
        THEN "guest_checkout"
        ELSE IF any_in(text_lower, {"verder", "continue", "next", "doorgaan", "volgende"})
        THEN "continue"
        ELSE IF any_in(text_lower, {"bevestigen", "confirm", "accept"})
        THEN "confirm"
        ELSE IF any_in(text_lower, {"close", "sluiten", "dismiss", "×"})
        THEN "close_popup"
        ELSE IF any_in(text_lower, {"creditcard", "credit card", "betalen", "pay"})
        THEN "select_payment"
        ELSE "other"

\* the step of an element, None when there is no element or nothing to find it by
_build_step_from_element(action_type, element, url) ==
    IF element = None THEN None
    ELSE LET attrs == The(element).attributes
             text == The(element).ax_name
             tag == The(element).node_name
             selector == _build_selector(tag, attrs)
             step == [action |-> action_type,
                      text |-> Prefix(text, TextCut),
                      selector |-> selector,
                      tag |-> str_lower(tag),
                      url_at |-> url,
                      purpose |-> _guess_purpose(text, attrs, url)]
             aria_label == IF attr(attrs, "aria-label") # ""
                           THEN [aria_label |-> Prefix(attr(attrs, "aria-label"), TextCut)]
                           ELSE EmptyDict
             role == IF attr(attrs, "role") # ""
                     THEN [role |-> attr(attrs, "role")]
                     ELSE EmptyDict
         IN  IF selector = None /\ text = "" THEN None
             ELSE Some(step @@ aria_label @@ role)

\* the action is a call of one of the agent's own tools
is_custom_tool(action) ==
    \E k \in DOMAIN action \ {"interacted_element", "result"} :
        k \in {"fill_shipping_form", "fill_payment_form", "done"}

\* a click step the extractor does not keep: nothing to read on it, a styled
\* span, or a click into a form field
skipped_click_keeps_fields(step) ==
    \/ step.text = "" /\ step.purpose = "other"
    \/ step.tag = "span" /\ step.purpose = "other"

\* a click without text is kept
skipped_click_keeps_textless(step) ==
    \/ step.tag = "span" /\ step.purpose = "other"
    \/ step.tag \in {"input", "textarea", "select"}

skipped_click(step) ==
    \/ step.text = "" /\ step.purpose = "other"
    \/ step.tag = "span" /\ step.purpose = "other"
    \/ step.tag \in {"input", "textarea", "select"}

\* str(selector): the text an f-string writes for an optional selector
format_selector(selector) == IF selector = None THEN "None" ELSE The(selector)

\* the key made of the whole text
dedup_key_whole_text(selector, text) == format_selector(selector) \o ":" \o text

\* f"{selector}:{text[:20]}"
dedup_key(selector, text) == format_selector(selector) \o ":" \o Prefix(text, KeyCut)

\* the step put in front of the list
add_step_in_front(steps, step) == <<step>> \o steps

\* steps.append(step)
add_step(steps, step) == Append(steps, step)

\* the step that one action of the trace yields when the dedup lets it
\* through, None when the action is not recorded
step_of(action, url) ==
    IF is_custom_tool(action) THEN None
    ELSE IF "click" \in DOMAIN action
    THEN LET step == _build_step_from_element("click", action["interacted_element"], url)
         IN  IF step = None \/ skipped_click(The(step)) THEN None ELSE step
    ELSE IF "go_to_url" \in DOMAIN action \/ "navigate" \in DOMAIN action
    THEN LET first == Get(action, "go_to_url", EmptyDict)
             nav_data == IF first # EmptyDict THEN first ELSE Get(action, "navigate", EmptyDict)
             nav_url == attr(nav_data, "url")
         IN  IF nav_url # ""
             THEN Some([action |-> "navigate", url |-> nav_url, purpose |-> "navigation"])
             ELSE None
    ELSE IF "wait" \in DOMAIN action
    THEN LET seconds == Get(action["wait"], "seconds", WaitCap)
         IN  Some([action |-> "wait",
                   seconds |-> IF seconds < WaitCap THEN seconds ELSE WaitCap,
                   purpose |-> "page_load"])
    ELSE IF "go_back" \in DOMAIN action
    THEN Some([action |-> "go_back", purpose |-> "navigation"])
    ELSE None

\* the loop over the trace, from action i on
RECURSIVE extract_loop(_, _, _, _, _)
extract_loop(actions, urls, i, steps, seen_selectors) ==
    IF i > Len(actions) THEN steps
    ELSE LET url == IF i <= Len(urls) THEN Some(urls[i]) ELSE None
             step == step_of(actions[i], url)
             key == dedup_key(The(step).selector, The(step).text)
         IN  IF step = None
             THEN extract_loop(actions, urls, i + 1, steps, seen_selectors)
             ELSE IF The(step).action # "click"
             THEN extract_loop(actions, urls, i + 1, add_step(steps, The(step)), seen_selectors)
             ELSE IF key \in seen_selectors
             THEN extract_loop(actions, urls, i + 1, steps, seen_selectors)
             ELSE extract_loop(actions, urls, i + 1, add_step(steps, The(step)),
                               seen_selectors \cup {key})

\* a history whose model_actions() or urls() raises yields no step
extract_navigation_steps(history) ==
    IF history.raises THEN <<>>
    ELSE extract_loop(history.model_actions, history.urls, 1, <<>>, {})

----------------------------------------------------------------------------
(* The Replay Compiler: _filter_pre_form_steps and _build_page_replay_script *)

\* step.get(key, '') or '' for a key that holds an optional text
text_of(step, key) ==
    LET value == Get(step, key, None)
    IN  IF value = None THEN "" ELSE The(value)

\* re.search(r'/checkout/.+', url_at): "/checkout/" with a character after it
on_checkout_subpage(url_at) ==
    \E i \in 1..Len(url_at) :
        /\ i + Len("/checkout/") <= Len(url_at)
        /\ SubSeq(url_at, i, i + Len("/checkout/") - 1) = "/checkout/"

\* any continue or confirm click stops the replay, wherever it was made
stops_replay_anywhere(step) ==
    /\ Get(step, "action", "") = "click"
    /\ Get(step, "purpose", "other") \in {"continue", "confirm"}

\* the stop condition: a continue or confirm click on a checkout sub-page
stops_replay(step) ==
    /\ Get(step, "action", "") = "click"
    /\ Get(step, "purpose", "other") \in {"continue", "confirm"}
    /\ on_checkout_subpage(text_of(step, "url_at"))

RECURSIVE _filter_pre_form_steps(_)
_filter_pre_form_steps(nav_steps) ==
    IF nav_steps = <<>> THEN <<>>
    ELSE IF Get(Head(nav_steps), "action", "") = "wait"
    THEN _filter_pre_form_steps(Tail(nav_steps))
    ELSE IF stops_replay(Head(nav_steps)) THEN <<>>
    ELSE <<Head(nav_steps)>> \o _filter_pre_form_steps(Tail(nav_steps))

----------------------------------------------------------------------------
(* Inputs of the calls *)

ShopDomain == <<"s", "h", "o", "p", ".", "n", "l">>
ShopUrl == <<"h", "t", "t", "p", "s", ":", "/", "/", "w", "w", "w", ".",
             "s", "h", "o", "p", ".", "n", "l", "/", "p">>

DomainInputs == {ShopDomain, ShopUrl}

\* domain and path of each input, as the first two lines of every operation compute them
KeyOf == [i \in DomainInputs |->
            [domain |-> domain_of(i), path |-> _flow_path(domain_of(i))]]

Paths == {KeyOf[i].path : i \in DomainInputs}

FormArgs == {EmptyDict,
             [email |-> "#a"],
             [email |-> "#b"],
             [email |-> "#b", zip_code |-> "#a"]}

PaymentArgs == {None, Some([card_number |-> "#a"]), Some([card_number |-> "#b"])}

ProductUrl == "https://shop.nl/products/x"
AddressUrl == "https://shop.nl/checkout/address"

\* two steps as the extractor builds them
StepAdd == [action |-> "click", text |-> "Add to cart", selector |-> Some("#add"), tag |-> "button",
            url_at |-> Some(ProductUrl), purpose |-> "add_to_cart"]
StepNext == [action |-> "click", text |-> "Continue", selector |-> Some("#next"), tag |-> "button",
             url_at |-> Some(AddressUrl), purpose |-> "continue"]

NavArgs == {None, Some(<<>>), Some(<<StepAdd, StepNext>>)}

\* checkout_url_pattern, platform and final_url as _discover_and_save passes them
MetaArgs == {[checkout_url_pattern |-> None, platform |-> Some("unknown"), final_url |-> None],
             [checkout_url_pattern |-> Some("/checkout/"), platform |-> Some("shopify"),
              final_url |-> Some("https://shop.nl/checkout/done")]}

LongError == [i \in 1..(ErrorCut + 1) |-> 120]

ErrorArgs == {None, Some(<<>>), Some(LongError)}

----------------------------------------------------------------------------
(* The calls: one action per operation of the store *)

NoSupply == [form |-> {}, payment |-> {}, steps |-> None, last_nav |-> "no call"]

Ret(op, raised, flow, deleted, health) ==
    [op |-> op, raised |-> raised, flow |-> flow, deleted |-> deleted, health |-> health]

\* the <<key, value>> pairs of a dict
Pairs(d) == {<<k, d[k]>> : k \in DOMAIN d}

\* what the save_flow calls have supplied, after one more call
Supply(old, form_selectors, payment_selectors, navigation_steps) ==
    LET pay == IF payment_selectors = None THEN EmptyDict ELSE The(payment_selectors)
    IN  [form |-> {p \in old.form : p[1] \notin DOMAIN form_selectors} \cup Pairs(form_selectors),
         payment |-> {p \in old.payment : p[1] \notin DOMAIN pay} \cup Pairs(pay),
         steps |-> IF navigation_steps = None THEN old.steps ELSE navigation_steps,
         last_nav |-> IF navigation_steps = None THEN "null" ELSE "given"]

\* no run of run_checkout yet
NoRun ==
    [state |-> "none", request |-> None, saved_flow |-> None, health |-> None, saved_form_sels |-> EmptyDict,
     saved_payment_sels |-> EmptyDict, saved_nav_steps |-> <<>>, tools |-> FALSE,
     compiled |-> None, replay_count |-> 0, success |-> FALSE, replay_steps_used |-> 0,
     saved |-> None, learned |-> None, injected |-> FALSE]

\* A document at path: window.__cc_replay_done is unset and no timer is
\* pending. evals, started, polls, clicks and log record what the injected
\* script does on the document: its evaluations, the automata it starts,
\* per target the polls and the el.click() calls, and the targets it leaves
\* in the order it leaves them. before records the targets clicked on the
\* documents the tab held earlier, as <<key of the group, index>>.
NewDocument(doc, path) ==
    [doc |-> doc, path |-> path, done |-> FALSE, evals |-> 0, started |-> 0,
     matchedPath |-> None, targets |-> <<>>, clickIndex |-> 0, attempts |-> 0,
     timer |-> "none", polls |-> <<>>, clicks |-> <<>>, log |-> <<>>, before |-> {}]

\* no document is loaded yet
NoPage == NewDocument(0, "")

\* no function of the engine is under study, no run is made, no page is loaded
EngineIdle ==
    /\ arg = None
    /\ out = None
    /\ run = NoRun
    /\ page = NoPage

Init ==
    /\ disk = [p \in Paths |-> NoFile]
    /\ now = 0
    /\ ret = Ret("none", "none", None, FALSE, None)
    /\ hist = [p \in Paths |-> <<>>]
    /\ supplied = [p \in Paths |-> NoSupply]
    /\ EngineIdle

\* time passes
Tick ==
    /\ now < MaxTime
    /\ now' = now + 1
    /\ UNCHANGED <<disk, ret, hist, supplied>>
    /\ UNCHANGED engineVars

save_flow(domain_or_url, form_selectors, payment_selectors, navigation_steps, checkout_url_pattern, platform, final_url, outcome) ==
    LET domain == KeyOf[domain_or_url].domain
        path == KeyOf[domain_or_url].path
        existing == save_flow_existing(disk[path])
        flow == save_flow_record(existing.value, domain, form_selectors, payment_selectors,
                                 navigation_steps, checkout_url_pattern, platform, final_url, now)
    IN  /\ Len(hist[path]) < MaxOps
        /\ ret' = Ret("save_flow", existing.raised, None, FALSE, None)
        /\ IF existing.raised # "none"
           THEN UNCHANGED <<disk, hist, supplied>>
           ELSE /\ disk' = [disk EXCEPT ![path] = written(@, flow, outcome)]
                /\ IF outcome = "ok"
                   THEN /\ hist' = [hist EXCEPT ![path] = Append(@, "S")]
                        /\ supplied' = [supplied EXCEPT ![path] =
                               Supply(@, form_selectors, payment_selectors, navigation_steps)]
                   ELSE UNCHANGED <<hist, supplied>>
        /\ UNCHANGED now

record_failure(domain_or_url, error, outcome) ==
    LET domain == KeyOf[domain_or_url].domain
        path == KeyOf[domain_or_url].path
        file == disk[path]
        exc == read_exception(file)
    IN  /\ Len(hist[path]) < MaxOps
        /\ hist' = [hist EXCEPT ![path] = Append(@, "F")]
        /\ IF ~exists(file)
           THEN /\ ret' = Ret("record_failure", "none", None, FALSE, None)
                /\ UNCHANGED disk
           ELSE IF exc # "none"
           THEN /\ ret' = Ret("record_failure", IF exc \in Caught THEN "none" ELSE exc,
                              None, FALSE, None)
                /\ UNCHANGED disk
           ELSE IF file.kind = "non_object"
           THEN /\ ret' = Ret("record_failure", "AttributeError", None, FALSE, None)
                /\ UNCHANGED disk
           ELSE /\ ret' = Ret("record_failure", "none", None, FALSE, None)
                /\ disk' = [disk EXCEPT ![path] =
                               written(@, record_failure_record(file.data, error, now), outcome)]
        /\ UNCHANGED <<now, supplied>>

\* the file stays where it is
delete_flow_keeps_file(domain_or_url) ==
    /\ ret' = Ret("delete_flow", "none", None, exists(disk[KeyOf[domain_or_url].path]), None)
    /\ UNCHANGED <<disk, hist, supplied, now>>

delete_flow(domain_or_url) ==
    LET domain == KeyOf[domain_or_url].domain
        path == KeyOf[domain_or_url].path
    IN  /\ IF exists(disk[path])
           THEN /\ disk' = [disk EXCEPT ![path] = NoFile]
                /\ ret' = Ret("delete_flow", "none", None, TRUE, None)
                /\ hist' = [hist EXCEPT ![path] = <<>>]
                /\ supplied' = [supplied EXCEPT ![path] = NoSupply]
           ELSE /\ ret' = Ret("delete_flow", "none", None, FALSE, None)
                /\ UNCHANGED <<disk, hist, supplied>>
        /\ UNCHANGED now

load_flow(domain_or_url) ==
    LET domain == KeyOf[domain_or_url].domain
        path == KeyOf[domain_or_url].path
        loaded == load_flow_result(disk[path])
    IN  /\ ret' = Ret("load_flow", loaded.raised, loaded.value, FALSE, None)
        /\ UNCHANGED <<disk, now, hist, supplied>>

\* load a record and, if there is one, compute its health: what GET /flows
\* does for each listed record and run_checkout does before it starts
list_flows_health(domain_or_url) ==
    LET domain == KeyOf[domain_or_url].domain
        path == KeyOf[domain_or_url].path
        full_flow == load_flow_result(disk[path])
    IN  /\ ret' = Ret("check_flow_health", full_flow.raised, full_flow.value, FALSE,
                      IF full_flow.value # None /\ The(full_flow.value) # EmptyDict
                      THEN Some(check_flow_health(The(full_flow.value)))
                      ELSE None)
        /\ UNCHANGED <<disk, now, hist, supplied>>

\* something outside the program damages a flow file
Damage(path, kind) ==
    /\ disk' = [disk EXCEPT ![path] = BadFile(kind)]
    /\ UNCHANGED <<now, ret, hist, supplied>>
    /\ UNCHANGED engineVars

----------------------------------------------------------------------------
(* Specifications *)

SaveCall(outcome, forms, payments, navs, metas) ==
    /\ \E i \in DomainInputs, f \in forms, p \in payments, n \in navs, m \in metas :
          save_flow(i, f, p, n, m.checkout_url_pattern, m.platform, m.final_url, outcome)
    /\ UNCHANGED engineVars

FailureCall(outcome) ==
    /\ \E i \in DomainInputs, e \in ErrorArgs : record_failure(i, e, outcome)
    /\ UNCHANGED engineVars

DeleteCall ==
    /\ \E i \in DomainInputs : delete_flow(i)
    /\ UNCHANGED engineVars

LoadCall ==
    /\ \E i \in DomainInputs : load_flow(i)
    /\ UNCHANGED engineVars

HealthCall ==
    /\ \E i \in DomainInputs : list_flows_health(i)
    /\ UNCHANGED engineVars

\* The store on a file system that works: every write succeeds and nothing
\* but the store touches the files.
Next ==
    \/ Tick
    \/ SaveCall("ok", FormArgs, PaymentArgs, NavArgs, MetaArgs)
    \/ FailureCall("ok")
    \/ DeleteCall
    \/ LoadCall
    \/ HealthCall

Spec == Init /\ [][Next]_vars

\* The store on a file system that fails: a write may fail or stop half way,
\* and files get damaged from outside.  What is saved does not matter here,
\* so save_flow is called with one choice of selectors and steps.
NextFS ==
    \/ Tick
    \/ \E o \in WriteOutcomes :
          SaveCall(o, {[email |-> "#a"]}, {None}, {Some(<<StepAdd, StepNext>>)}, MetaArgs)
    \/ \E o \in WriteOutcomes : FailureCall(o)
    \/ DeleteCall
    \/ LoadCall
    \/ HealthCall
    \/ \E p \in Paths, k \in FileKinds \ {"absent", "object"} : Damage(p, k)

SpecFS == Init /\ [][NextFS]_vars

\* The Health Monitor as a function: any record on disk, then a health check.
MaxFailRun == 3     \* largest consecutive_failures of a health-check input record

CounterInputs == {None} \cup {Some(n) : n \in 0..MaxCount}
RunInputs == {None} \cup {Some(n) : n \in 0..MaxFailRun}
StampInputs == {None} \cup {Some(isoformat(t)) : t \in 0..MaxTime}

\* the dict with the keys whose value is given
HealthInput(success_count, failure_count, consecutive_failures, last_success, last_failure) ==
    LET given == [success_count |-> success_count, failure_count |-> failure_count,
                  consecutive_failures |-> consecutive_failures,
                  last_success |-> last_success, last_failure |-> last_failure]
    IN  [k \in {"domain"} \cup {g \in DOMAIN given : given[g] # None} |->
            IF k = "domain" THEN ShopDomain ELSE The(given[k])]

HealthInputs ==
    {HealthInput(s, f, c, ls, lf) :
        s \in CounterInputs, f \in CounterInputs, c \in RunInputs,
        ls \in StampInputs, lf \in StampInputs}

InitHealth ==
    /\ \E flow \in HealthInputs : disk = [p \in Paths |-> ObjectFile(flow)]
    /\ now = 0
    /\ ret = Ret("none", "none", None, FALSE, None)
    /\ hist = [p \in Paths |-> <<>>]
    /\ supplied = [p \in Paths |-> NoSupply]
    /\ EngineIdle

NextHealth == HealthCall

SpecHealth == InitHealth /\ [][NextHealth]_vars

----------------------------------------------------------------------------
(* Properties of the Flow Store *)

\* the record stored at a path (the empty dict when the file holds none)
Stored(p) == disk[p].data
HasRecord(p) == disk[p].kind = "object"

RECURSIVE Count(_, _)
Count(calls, c) ==
    IF calls = <<>> THEN 0
    ELSE (IF Head(calls) = c THEN 1 ELSE 0) + Count(Tail(calls), c)

\* the length of the run of failures that ends the call sequence
RECURSIVE TrailingFailures(_)
TrailingFailures(calls) ==
    IF calls = <<>> \/ calls[Len(calls)] # "F" THEN 0
    ELSE 1 + TrailingFailures(SubSeq(calls, 1, Len(calls) - 1))

\* the calls from the first save_flow on
RECURSIVE FromFirstSave(_)
FromFirstSave(calls) ==
    IF calls = <<>> \/ Head(calls) = "S" THEN calls ELSE FromFirstSave(Tail(calls))

\* C1 as stated: after s saves and f recorded failures in any order, starting
\* from no record, the stored record has success_count = s, failure_count = f
\* and consecutive_failures = the length of the trailing run of failures.
C1_CountersOfAllCalls ==
    \A p \in Paths :
        HasRecord(p) =>
            /\ Stored(p).success_count = Count(hist[p], "S")
            /\ Stored(p).failure_count = Count(hist[p], "F")
            /\ Stored(p).consecutive_failures = TrailingFailures(hist[p])

\* C1 amended: a record is stored exactly when some save_flow was called;
\* it has success_count = s, failure_count = the number of record_failure
\* calls made after the first save_flow (the earlier ones found no record and
\* were dropped), and consecutive_failures = the trailing run of failures.
C1_CountersSinceFirstSave ==
    \A p \in Paths :
        /\ HasRecord(p) <=> Count(hist[p], "S") > 0
        /\ HasRecord(p) =>
            /\ Stored(p).success_count = Count(hist[p], "S")
            /\ Stored(p).failure_count = Count(FromFirstSave(hist[p]), "F")
            /\ Stored(p).consecutive_failures = TrailingFailures(hist[p])

\* a failure before the first save, then a save, then a counted failure
C1_Witness ==
    \E p \in Paths :
        /\ hist[p] = <<"F", "S", "F">>
        /\ HasRecord(p)
        /\ Stored(p).failure_count = 1

\* C2: after any sequence of save_flow calls to a domain, form_selectors and
\* payment_selectors are each the union of the maps supplied, the latest call
\* winning on a key collision and keys absent from later calls surviving.
C2_SelectorsAreUnion ==
    \A p \in Paths :
        HasRecord(p) =>
            /\ Pairs(Stored(p).form_selectors) = supplied[p].form
            /\ Pairs(Stored(p).payment_selectors) = supplied[p].payment

\* email was supplied as "#b" together with zip_code and then alone as "#a":
\* the later email won and zip_code survived; card_number was supplied
C2_Witness ==
    \E p \in Paths :
        /\ HasRecord(p)
        /\ Stored(p).form_selectors = [email |-> "#a", zip_code |-> "#a"]
        /\ DOMAIN Stored(p).payment_selectors = {"card_number"}

\* C3: the stored navigation_steps are exactly the sequence of the most
\* recent save_flow call that passed one (empty while none did), so a call
\* that passes null leaves them as they were.
C3_StepsAreLatestSupplied ==
    \A p \in Paths :
        HasRecord(p) =>
            Stored(p).navigation_steps =
                (IF supplied[p].steps = None THEN <<>> ELSE The(supplied[p].steps))

\* the latest call passed null and the steps of an earlier call are stored
C3_Witness ==
    \E p \in Paths :
        /\ HasRecord(p)
        /\ supplied[p].last_nav = "null"
        /\ Stored(p).navigation_steps = <<StepAdd, StepNext>>

\* C4: record_failure on a domain without a record changes nothing on disk;
\* on a record it adds exactly 1 to failure_count and to consecutive_failures.
C4_RecordFailureStep ==
    [][\A p \in Paths :
          hist'[p] = Append(hist[p], "F") =>
              IF ~exists(disk[p])
              THEN disk' = disk
              ELSE /\ HasRecord(p)'
                   /\ Stored(p)'.failure_count = Stored(p).failure_count + 1
                   /\ Stored(p)'.consecutive_failures = Stored(p).consecutive_failures + 1]_vars

\* a failure that found no record and one that found one
C4_Witness ==
    \E p \in Paths :
        /\ hist[p] = <<"F", "S", "F">>
        /\ HasRecord(p)
        /\ Stored(p).failure_count = 1
        /\ Stored(p).consecutive_failures = 1

\* C5 as stated: load_flow never raises to its caller, whatever the file at
\* the path holds: missing, unreadable, partially written or unparseable.
C5_LoadNeverRaises ==
    ret.op = "load_flow" => ret.raised = "none"

\* C6: over save_flow and record_failure calls failure_count never
\* decreases, each save adds exactly 1 to success_count (1 for a new record)
\* and leaves consecutive_failures at 0.
C6_CounterSteps ==
    [][\A p \in Paths :
          /\ hist'[p] = Append(hist[p], "S") =>
                /\ HasRecord(p)'
                /\ Stored(p)'.success_count = (IF HasRecord(p) THEN Stored(p).success_count ELSE 0) + 1
                /\ Stored(p)'.consecutive_failures = 0
          /\ (HasRecord(p) /\ hist'[p] \in {Append(hist[p], "S"), Append(hist[p], "F")}) =>
                /\ HasRecord(p)'
                /\ Stored(p)'.failure_count >= Stored(p).failure_count]_vars

\* a save that followed a recorded failure
C6_Witness ==
    \E p \in Paths :
        /\ hist[p] = <<"S", "F", "S">>
        /\ HasRecord(p)
        /\ Stored(p).success_count = 2
        /\ Stored(p).failure_count = 1
        /\ Stored(p).consecutive_failures = 0

----------------------------------------------------------------------------
(* Properties of the Health Monitor *)

\* a health check has just returned a summary
Checked == ret.op = "check_flow_health" /\ ret.health # None
Health == The(ret.health)

\* the record the summary was computed from
Input == Stored(KeyOf[ShopDomain].path)
InSuccess == Get(Input, "success_count", 0)
InFailure == Get(Input, "failure_count", 0)
InRun == Get(Input, "consecutive_failures", 0)

\* the status by the rule of the claim, in whole numbers
RuleStatus(s, f) ==
    IF (s + f >= 3 /\ s * 100 < 20 * (s + f)) \/ (f >= 3 /\ s = 0) THEN "broken"
    ELSE IF s + f >= 3 /\ s * 100 < 50 * (s + f) THEN "degraded"
    ELSE "healthy"

\* C7: for a record with consecutive_failures < 2 the status is healthy by
\* default, degraded when total_runs >= 3 and success_count*100 < 50*total_runs,
\* broken when total_runs >= 3 and success_count*100 < 20*total_runs or when
\* failure_count >= 3 and success_count = 0.
C7_StatusByThresholds ==
    (Checked /\ InRun < 2) => Health.status = RuleStatus(InSuccess, InFailure)

\* a record with one success in six runs is reported broken
C7_Witness ==
    /\ Checked
    /\ InRun < 2
    /\ InSuccess = 1
    /\ InFailure = 5
    /\ Health.status = "broken"

\* the record of the example: one success, four failures, no run of failures
C8_Case == Checked /\ InSuccess = 1 /\ InFailure = 4 /\ InRun < 2

\* C8 as stated: success_count = 1 and failure_count = 4 give status broken.
C8_OneInFiveIsBroken ==
    C8_Case => Health.status = "broken"

\* C8 amended: success_count = 1 and failure_count = 4 (success rate 20.0,
\* which is not below 20) give status degraded.
C8_OneInFiveIsDegraded ==
    C8_Case => Health.status = "degraded" /\ Health.success_rate = 200

C8_Witness == C8_Case /\ Health.success_count + Health.failure_count = 5

\* C9: a record with consecutive_failures >= 2 gets needs_relearn = true and
\* status needs_relearn, whatever its counts and the status they would give.
C9_FailureRunForcesRelearn ==
    (Checked /\ InRun >= 2) => Health.needs_relearn /\ Health.status = "needs_relearn"

\* a record the thresholds call broken, with a run of two failures
C9_Witness ==
    /\ Checked
    /\ InRun = 2
    /\ InSuccess = 0
    /\ InFailure = 3
    /\ Health.status = "needs_relearn"

\* last_failure and last_success are both present and last_failure sorts after last_success
FailureSortsLater ==
    /\ "last_failure" \in DOMAIN Input
    /\ "last_success" \in DOMAIN Input
    /\ StrLess(Input.last_success, Input.last_failure)

\* C10: needs_relearn is true exactly when last_failure sorts after
\* last_success (both present) or consecutive_failures >= 2; with only the
\* first, the status stays the one the thresholds give, never needs_relearn.
C10_RelearnFlag ==
    Checked =>
        /\ Health.needs_relearn <=> (FailureSortsLater \/ InRun >= 2)
        /\ InRun < 2 => Health.status = RuleStatus(InSuccess, InFailure)
        /\ InRun < 2 => Health.status # "needs_relearn"

\* the flag set by the timestamps alone
C10_Witness ==
    /\ Checked
    /\ FailureSortsLater
    /\ InRun < 2
    /\ Health.needs_relearn
    /\ Health.status = "healthy"

----------------------------------------------------------------------------
(* The Step Extractor as a function: any trace, then the extraction *)

MaxTrace == 3       \* longest trace of agent actions

storeVars == <<disk, now, ret, hist, supplied>>

\* all but the function under study
otherVars == <<disk, now, ret, hist, supplied, run, page>>

\* the store is empty, no run is made and no page is loaded: only the
\* function under study acts
StoreIdle ==
    /\ disk = [p \in Paths |-> NoFile]
    /\ now = 0
    /\ ret = Ret("none", "none", None, FALSE, None)
    /\ hist = [p \in Paths |-> <<>>]
    /\ supplied = [p \in Paths |-> NoSupply]
    /\ run = NoRun
    /\ page = NoPage

Element(node_name, attributes, ax_name) ==
    [attributes |-> attributes, ax_name |-> ax_name, node_name |-> node_name]

BuyButton == Element("BUTTON", [id |-> "a:b"], "c buy")
BuyField == Element("INPUT", [id |-> "a:b"], "c buy")
NextStepLink == Element("A", EmptyDict, "Continue to the next step")
NextPageLink == Element("A", EmptyDict, "Continue to the next page")
SizeSpan == Element("SPAN", [class |-> "_x tag size-label"], "Size M")
IconButton == Element("BUTTON", [id |-> "x"], "")

\* one action of the trace: its name and parameters, and the element it touched
RawAction(name, params, interacted_element) ==
    (name :> params) @@ ("interacted_element" :> interacted_element)

ClickInputs ==
    {RawAction("click", [index |-> 1], Some(e)) :
        e \in {BuyButton, BuyField, NextStepLink, NextPageLink, SizeSpan, IconButton}}

OtherInputs ==
    {RawAction("navigate", [url |-> "https://shop.nl/cart"], None),
     RawAction("wait", [seconds |-> 5], None),
     RawAction("go_back", EmptyDict, None),
     RawAction("input", [text |-> "Jane"], Some(BuyButton)),
     RawAction("fill_payment_form", EmptyDict, Some(BuyButton))}

ActionInputs == ClickInputs \cup OtherInputs

\* history.urls() for a trace of n actions: one URL per action, or one short
UrlLists(n) ==
    {[i \in 1..n |-> IF i = 1 THEN ProductUrl ELSE AddressUrl],
     [i \in 1..(n - 1) |-> ProductUrl]}

\* the traces of n actions
Traces(n) == [1..n -> ActionInputs]

\* the histories of a trace, and the history whose accessors raise
Histories(a) == {[model_actions |-> a, urls |-> u, raises |-> FALSE] : u \in UrlLists(Len(a))}
RaisingHistory == [model_actions |-> <<>>, urls |-> <<>>, raises |-> TRUE]

InitExtract ==
    /\ StoreIdle
    /\ \/ arg = RaisingHistory
       \/ \E n \in 0..MaxTrace : \E a \in Traces(n) : arg \in Histories(a)
    /\ out = None

\* nav_steps = flow_store.extract_navigation_steps(history)
Extract ==
    /\ out = None
    /\ out' = Some(extract_navigation_steps(arg))
    /\ UNCHANGED arg
    /\ UNCHANGED otherVars

NextExtract == Extract

SpecExtract == InitExtract /\ [][NextExtract]_vars

----------------------------------------------------------------------------
(* Properties of the Step Extractor *)

\* the extraction has been applied to the trace of arg
Applied == out # None
Extracted == The(out)
Trace == arg.model_actions
UrlAt(i) == IF i <= Len(arg.urls) THEN Some(arg.urls[i]) ELSE None

\* the step that action i of the trace stands for, None if it is not recorded
Candidate(i) == step_of(Trace[i], UrlAt(i))
IsClick(step) == step.action = "click"
CandidateClick(i) == Candidate(i) # None /\ IsClick(The(Candidate(i)))

\* the pair a click is deduplicated on
ClickKey(step) == <<step.selector, Prefix(step.text, KeyCut)>>

\* s without its element j
Remove(s, j) == IF j > Len(s) THEN s ELSE SubSeq(s, 1, j - 1) \o SubSeq(s, j + 1, Len(s))

\* the k-th smallest element of a set of numbers
Nth(S, k) == CHOOSE x \in S : Cardinality({y \in S : y < x}) = k - 1

Replayable(action) ==
    /\ DOMAIN action \cap {"fill_shipping_form", "fill_payment_form", "done"} = {}
    /\ "input" \notin DOMAIN action

\* the step shows what the action did, where it did it
Produces(action, url, step) ==
    \/ /\ step.action = "click"
       /\ "click" \in DOMAIN action
       /\ action["interacted_element"] # None
       /\ step.text = Prefix(The(action["interacted_element"]).ax_name, TextCut)
       /\ step.tag = str_lower(The(action["interacted_element"]).node_name)
       /\ step.url_at = url
    \/ /\ step.action = "navigate"
       /\ \E k \in {"go_to_url", "navigate"} :
             k \in DOMAIN action /\ "url" \in DOMAIN action[k] /\ step.url = action[k].url
    \/ /\ step.action = "wait"
       /\ "wait" \in DOMAIN action
    \/ /\ step.action = "go_back"
       /\ "go_back" \in DOMAIN action

\* the sets of trace positions that the steps of the output can come from,
\* in order: as many positions as steps, the k-th step produced by the
\* action at the k-th position
Origins ==
    {S \in SUBSET (1..Len(Trace)) :
        /\ Cardinality(S) = Len(Extracted)
        /\ \A k \in 1..Len(Extracted) :
              Produces(Trace[Nth(S, k)], UrlAt(Nth(S, k)), Extracted[k])}

\* C13: every step of the output comes from an action that is neither a
\* call of fill_shipping_form, fill_payment_form or done nor an input
\* action, and no click step of the output has tag input, textarea or
\* select, tag span with purpose other, or an empty text with purpose other.
C13_NothingUnreplayableExtracted ==
    Applied /\ ~arg.raises =>
        /\ \E S \in Origins : \A i \in S : Replayable(Trace[i])
        /\ \A k \in 1..Len(Extracted) :
              IsClick(Extracted[k]) =>
                  /\ Extracted[k].tag \notin {"input", "textarea", "select"}
                  /\ ~(Extracted[k].tag = "span" /\ Extracted[k].purpose = "other")
                  /\ ~(Extracted[k].text = "" /\ Extracted[k].purpose = "other")

\* a trace of a tool call, an input action and a click into a form field
\* that reads like a button: nothing is extracted
C13_Witness ==
    /\ Applied
    /\ Len(Trace) = 3
    /\ "fill_payment_form" \in DOMAIN Trace[1]
    /\ "input" \in DOMAIN Trace[2]
    /\ "click" \in DOMAIN Trace[3]
    /\ Trace[3]["interacted_element"] = Some(BuyField)
    /\ Extracted = <<>>

\* C14: the output is an order-preserving subsequence of the trace: its
\* steps come from distinct actions of the trace at increasing positions,
\* and every step is a click, navigate, wait or go_back.
C14_OrderPreserved ==
    Applied /\ ~arg.raises =>
        /\ Origins # {}
        /\ \A k \in 1..Len(Extracted) :
              Extracted[k].action \in {"click", "navigate", "wait", "go_back"}

\* a navigation, a click and a wait are extracted in the order of the trace
C14_Witness ==
    /\ Applied
    /\ Len(Trace) = 3
    /\ Len(Extracted) = 3
    /\ Extracted[1].action = "navigate"
    /\ Extracted[2].action = "click"
    /\ Extracted[3].action = "wait"

----------------------------------------------------------------------------
(* _guess_purpose as a function: any text, then the classification *)

MaxWords == 2       \* most words of a text

\* the keywords of each category, in the order the code tries the categories
PurposeKeywords ==
    <<[purpose |-> "cookie_consent",
       words |-> {"accept", "accepteren", "cookie", "consent", "agree"}],
      [purpose |-> "add_to_cart",
       words |-> {"add to cart", "in winkelwagen", "bestellen", "buy", "kopen", "wil bestellen"}],
      [purpose |-> "go_to_checkout",
       words |-> {"checkout", "kassa", "winkelwagen", "cart", "verder naar bestellen", "ga bestellen"}],
      [purpose |-> "guest_checkout",
       words |-> {"guest", "zonder registratie", "zonder account", "continue without"}],
      [purpose |-> "continue",
       words |-> {"verder", "continue", "next", "doorgaan", "volgende"}],
      [purpose |-> "confirm",
       words |-> {"bevestigen", "confirm", "accept"}],
      [purpose |-> "close_popup",
       words |-> {"close", "sluiten", "dismiss", "×"}],
      [purpose |-> "select_payment",
       words |-> {"creditcard", "credit card", "betalen", "pay"}]>>

\* what a text is made of: every keyword, and words that are none
Vocabulary ==
    UNION {PurposeKeywords[c].words : c \in 1..Len(PurposeKeywords)}
    \cup {"Size M", "ACCEPT", "Pay"}

\* " ".join(words)
RECURSIVE join(_)
join(words) ==
    IF words = <<>> THEN ""
    ELSE IF Len(words) = 1 THEN words[1]
    ELSE words[1] \o " " \o join(Tail(words))

Texts == {join(ws) : ws \in UNION {[1..n -> Vocabulary] : n \in 0..MaxWords}}

InitPurpose ==
    /\ StoreIdle
    /\ arg \in Texts
    /\ out = None

\* 'purpose': _guess_purpose(text, attrs, url)
GuessPurpose ==
    /\ out = None
    /\ out' = Some(_guess_purpose(arg, EmptyDict, None))
    /\ UNCHANGED arg
    /\ UNCHANGED otherVars

NextPurpose == GuessPurpose

SpecPurpose == InitPurpose /\ [][NextPurpose]_vars

\* the categories, by their place in the order, whose keywords the text holds
Matching(text) ==
    {c \in 1..Len(PurposeKeywords) :
        \E w \in PurposeKeywords[c].words : Contains(str_lower(text), w)}

\* C15: the purpose of a text is the earliest category, in the order
\* cookie_consent, add_to_cart, go_to_checkout, guest_checkout, continue,
\* confirm, close_popup, select_payment, of which the text holds a keyword,
\* and other when it holds none; each category is the purpose of one of its
\* own keywords.
C15_EarliestMatchingCategory ==
    /\ out # None =>
          LET matching == Matching(arg)
          IN  The(out) = IF matching = {} THEN "other"
                         ELSE PurposeKeywords[Nth(matching, 1)].purpose
    /\ \A c \in 1..Len(PurposeKeywords) :
          \E w \in PurposeKeywords[c].words :
              _guess_purpose(w, EmptyDict, None) = PurposeKeywords[c].purpose

\* a text with keywords of guest_checkout, continue and select_payment is
\* classified as guest_checkout
C15_Witness ==
    /\ out = Some("guest_checkout")
    /\ arg = "continue without Pay"
    /\ Matching(arg) = {4, 5, 8}

----------------------------------------------------------------------------
(* _filter_pre_form_steps as a function: any cached steps, then the filter *)

MaxSteps == 3       \* most cached steps of a record

Click(purpose, url_at) ==
    [action |-> "click", text |-> "Go", selector |-> Some("#go"), tag |-> "button",
     url_at |-> url_at, purpose |-> purpose]

StepInputs ==
    {StepAdd, StepNext,
     Click("continue", Some(ProductUrl)),
     Click("confirm", Some(AddressUrl)),
     Click("confirm", Some("https://shop.nl/checkout/")),
     Click("go_to_checkout", Some(AddressUrl)),
     Click("continue", None),
     [action |-> "wait", seconds |-> 2, purpose |-> "page_load"],
     [action |-> "navigate", url |-> "https://shop.nl/checkout/address", purpose |-> "navigation"]}

StepLists == UNION {[1..n -> StepInputs] : n \in 0..MaxSteps}

InitFilter ==
    /\ StoreIdle
    /\ arg \in StepLists
    /\ out = None

\* pre_form_steps = _filter_pre_form_steps(saved_nav_steps)
FilterPreForm ==
    /\ out = None
    /\ out' = Some(_filter_pre_form_steps(arg))
    /\ UNCHANGED arg
    /\ UNCHANGED otherVars

NextFilter == FilterPreForm

SpecFilter == InitFilter /\ [][NextFilter]_vars

\* a click whose purpose is continue or confirm and whose url_at holds
\* "/checkout/" followed by more
Boundary(step) ==
    /\ step.action = "click"
    /\ step.purpose \in {"continue", "confirm"}
    /\ "url_at" \in DOMAIN step
    /\ step.url_at # None
    /\ \E i \in 1..Len(The(step.url_at)) :
          /\ Len(The(step.url_at)) > i + 9
          /\ SubSeq(The(step.url_at), i, i + 9) = "/checkout/"

\* the steps before the first boundary step, all of them when there is none
BeforeBoundary(steps) ==
    LET stops == {i \in 1..Len(steps) : Boundary(steps[i])}
    IN  IF stops = {} THEN steps ELSE SubSeq(steps, 1, Nth(stops, 1) - 1)

\* C16 as stated: the result is exactly the steps that precede the first
\* continue or confirm click on a checkout sub-page, and the whole input
\* when there is no such click.
C16_ExactlyStepsBeforeBoundary ==
    out # None => The(out) = BeforeBoundary(arg)

\* C16, amended: the result is the steps other than wait steps that precede
\* the first continue or confirm click on a checkout sub-page, in their
\* order, and all steps other than wait steps when there is no such click.
C16_NonWaitStepsBeforeBoundary ==
    out # None => The(out) = SelectSeq(BeforeBoundary(arg), LAMBDA s : s.action # "wait")

\* add to cart, a wait, then continue on /checkout/address: only the first
\* step is returned
C16_Witness ==
    /\ out = Some(<<StepAdd>>)
    /\ Len(arg) = 3
    /\ arg[1] = StepAdd
    /\ arg[2].action = "wait"
    /\ arg[3] = StepNext

----------------------------------------------------------------------------
(* run_checkout: one checkout run, from the load of the record to the     *)
(* recording of its outcome                                               *)

\* the text of a str kept as a sequence of characters
RECURSIVE join_chars(_)
join_chars(chars) == IF chars = <<>> THEN "" ELSE Head(chars) \o join_chars(Tail(chars))

\* the first position from i on of a character of cs in s, Len(s) + 1 if none
index_of(s, cs, i) ==
    IF \E j \in i..Len(s) : SubSeq(s, j, j) \in cs
    THEN CHOOSE j \in i..Len(s) :
             SubSeq(s, j, j) \in cs /\ \A k \in i..(j - 1) : SubSeq(s, k, k) \notin cs
    ELSE Len(s) + 1

\* urlparse(url).path of an http(s) URL or of a path: what follows the
\* network location, up to the first '?' or '#'
urlparse_path(url) ==
    LET colon == index_of(url, {":"}, 1)
        slash == index_of(url, {"/", "?", "#"}, 1)
        rest == IF colon < slash THEN SubSeq(url, colon + 1, Len(url)) ELSE url
        after == IF StartsWith(rest, "//")
                 THEN SubSeq(rest, index_of(rest, {"/", "?", "#"}, 3), Len(rest))
                 ELSE rest
    IN  SubSeq(after, 1, index_of(after, {"?", "#"}, 1) - 1)

\* x or {}, for an optional dict x
or_empty(d) == IF d = None THEN EmptyDict ELSE The(d)

\* the cached steps are used whatever the health says
cached_nav_steps_despite_health(saved_flow, health) ==
    Get(saved_flow, "navigation_steps", <<>>)

\* lines 380-389: the cached steps of the run, none when the record needs re-learning
cached_nav_steps(saved_flow, health) ==
    IF health.needs_relearn THEN <<>> ELSE Get(saved_flow, "navigation_steps", <<>>)

\* lines 383-388: the selectors of the record under those of the request
seeded_selectors(saved_flow, key, request_selectors) ==
    MergeDict(Get(saved_flow, key, EmptyDict), request_selectors)

\* len([s for s in pre_form_steps if s.get('action') == 'click'])
click_count(steps) == Len(SelectSeq(steps, LAMBDA s : Get(s, "action", "") = "click"))

\* lines 1243-1250: the first pattern that the path of the final URL holds
checkout_url_pattern_of(final_url) ==
    LET path == urlparse_path(The(final_url))
        patterns == <<"/checkouts/", "/checkout/", "/cart/checkout", "/order/">>
        found == {i \in 1..Len(patterns) : Contains(path, patterns[i])}
    IN  IF ~Truthy(final_url) \/ found = {} THEN None
        ELSE Some(patterns[CHOOSE i \in found : \A j \in found : i <= j])

\* "Agent did not complete checkout"
DefaultError ==
    <<65, 103, 101, 110, 116, 32, 100, 105, 100, 32, 110, 111, 116, 32, 99, 111, 109, 112,
      108, 101, 116, 101, 32, 99, 104, 101, 99, 107, 111, 117, 116>>

\* the traces of the runs
EmptyHistory == [model_actions |-> <<>>, urls |-> <<>>, raises |-> FALSE]
CheckoutHistory ==
    [model_actions |-> <<RawAction("navigate", [url |-> ProductUrl], None),
                         RawAction("click", [index |-> 1], Some(BuyButton)),
                         RawAction("click", [index |-> 2], Some(NextStepLink)),
                         RawAction("done", [success |-> TRUE], None)>>,
     urls |-> <<ProductUrl, ProductUrl, AddressUrl, AddressUrl>>,
     raises |-> FALSE]
CartHistory ==
    [model_actions |-> <<RawAction("click", [index |-> 1], Some(BuyButton)),
                         RawAction("wait", [seconds |-> 5], None)>>,
     urls |-> <<ProductUrl, ProductUrl>>,
     raises |-> FALSE]

RunHistories == {EmptyHistory, CheckoutHistory, CartHistory}

\* the steps extracted from each of them
ExtractedOf == [h \in RunHistories |-> extract_navigation_steps(h)]

\* what the run leaves behind: the locals the claims are about and the CheckoutResult
RunResult(state, request, saved_flow, health, form, payment, steps, tools, compiled, replay_count, success, used, saved, learned, injected) ==
    [state |-> state, request |-> Some(request), saved_flow |-> saved_flow, health |-> health,
     saved_form_sels |-> form,
     saved_payment_sels |-> payment, saved_nav_steps |-> steps, tools |-> tools,
     compiled |-> compiled, replay_count |-> replay_count, success |-> success,
     replay_steps_used |-> used, saved |-> saved, learned |-> learned, injected |-> injected]

\* only an exception counts as a failure
ends_in_failure_raised_only(state) == state = "exception"

\* lines 767-770, line 811: the ways out that call record_failure
ends_in_failure(state) == state \in {"exception", "failed"}

\* the record is written whatever was found
worth_saving_always(discovered_form, discovered_payment, nav_steps) == TRUE

\* line 1252: if discovered_form or discovered_payment or nav_steps
worth_saving(discovered_form, discovered_payment, nav_steps) ==
    \/ discovered_form # EmptyDict
    \/ discovered_payment # EmptyDict
    \/ nav_steps # <<>>

\* if saved_flow: load_flow returned a record that is not empty
Truthy_flow(loaded) == loaded.raised = "none" /\ loaded.value # None /\ The(loaded.value) # EmptyDict

\* request: product_url, dry_run and the optional selector seeds.
\* env: whether an LLM key is set, whether browser.start() succeeds, whether
\*      the injection of the replay script succeeds, whether save_flow can
\*      write the record (an exception of _discover_and_save is only logged).
\* agent: what agent.run() does: raises, or returns a history with is_done,
\*      a final result, the selectors the fill tools used, the final URL,
\*      and what the scan of the final page finds.
\* file: the file of the shop as load_flow finds it at line 370; the store
\*      is written at the end of the run, on the file as it is by then.
\* Each local of the function is bound once, in the order the code assigns
\* it; state names the way the run leaves the function:
\*   "raised"     load_flow raises before the try block
\*   "no_llm"     "No LLM API key found."
\*   "exception"  the except clause of lines 807-816
\*   "failed"     the agent returns without success
\*   "succeeded"  is_done, or a dry run that reports DRY_RUN_COMPLETE
run_checkout_on(file, request, env, agent) ==
    \E loaded \in {load_flow_result(file)} :
    \E health \in {IF Truthy_flow(loaded) THEN Some(check_flow_health(The(loaded.value))) ELSE None} :
    \E saved_flow \in {IF health # None THEN The(loaded.value) ELSE EmptyDict} :
    \E saved_form_sels \in
        {IF health # None
         THEN seeded_selectors(saved_flow, "form_selectors", or_empty(request.saved_form_selectors))
         ELSE or_empty(request.saved_form_selectors)} :
    \E saved_payment_sels \in
        {IF health # None
         THEN seeded_selectors(saved_flow, "payment_selectors", or_empty(request.saved_payment_selectors))
         ELSE or_empty(request.saved_payment_selectors)} :
    \E saved_nav_steps \in {IF health # None THEN cached_nav_steps(saved_flow, The(health)) ELSE <<>>} :
    \E pre_form_steps \in {_filter_pre_form_steps(saved_nav_steps)} :
    \E clicks \in {IF saved_nav_steps # <<>> THEN click_count(pre_form_steps) ELSE 0} :
    \E compiles \in {clicks > 0 /\ env.browser_started} :
    \E replay_count \in {IF compiles /\ ~env.injects THEN 0 ELSE clicks} :
    \E success \in {agent.is_done \/ (request.dry_run /\ agent.final_result = "DRY_RUN_COMPLETE")} :
    \E state \in {IF loaded.raised # "none" THEN "raised"
                  ELSE IF ~env.llm THEN "no_llm"
                  ELSE IF agent.raises THEN "exception"
                  ELSE IF ~success THEN "failed"
                  ELSE "succeeded"} :
    \E error \in {IF state = "exception" THEN agent.error
                  ELSE Prefix(IF agent.final_result = "" THEN DefaultError ELSE agent.error, ErrorCut)} :
    \E nav_steps \in {ExtractedOf[agent.history]} :
    \E all_nav_steps \in {IF replay_count > 0 /\ saved_nav_steps # <<>>
                          THEN Prefix(saved_nav_steps, replay_count) \o nav_steps
                          ELSE nav_steps} :
    \E scanned \in {IF agent.scan.raises
                    THEN [form |-> EmptyDict, payment |-> EmptyDict, platform |-> "unknown"]
                    ELSE [form |-> agent.scan.form, payment |-> agent.scan.payment,
                          platform |-> agent.scan.platform]} :
    \E discovered_form \in {MergeDict(scanned.form, agent.fill_results.form)} :
    \E discovered_payment \in {MergeDict(scanned.payment, agent.fill_results.payment)} :
    \E saves \in {state = "succeeded" /\ worth_saving(discovered_form, discovered_payment, all_nav_steps)} :
    \E tools \in {state \notin {"raised", "no_llm"}} :
        /\ run' = IF state = "raised"
                  THEN [NoRun EXCEPT !.state = "raised", !.request = Some(request)]
                  ELSE RunResult(state, request, loaded.value, health, saved_form_sels,
                                 saved_payment_sels, saved_nav_steps, tools,
                                 IF tools /\ compiles THEN Some(pre_form_steps) ELSE None,
                                 IF tools THEN replay_count ELSE 0,
                                 state = "succeeded",
                                 IF state \in {"failed", "succeeded"} THEN replay_count ELSE 0,
                                 IF saves THEN Some(all_nav_steps) ELSE None,
                                 IF state = "succeeded"
                                 THEN Some([form |-> discovered_form, payment |-> discovered_payment,
                                            steps |-> all_nav_steps])
                                 ELSE None,
                                 tools /\ compiles /\ env.injects)
        /\ CASE state = "raised" ->
                   /\ ret' = Ret("load_flow", loaded.raised, None, FALSE, None)
                   /\ UNCHANGED <<disk, now, hist, supplied>>
             [] ends_in_failure(state) ->
                   record_failure(request.product_url, Some(error), "ok")
             [] saves ->
                   save_flow(request.product_url, discovered_form, Some(discovered_payment),
                             Some(all_nav_steps), checkout_url_pattern_of(agent.final_url),
                             Some(scanned.platform), agent.final_url,
                             IF env.saves THEN "ok" ELSE "open_fails")
             [] OTHER -> UNCHANGED storeVars

\* a run that no other call to the store overlaps
run_checkout(request, env, agent) ==
    run_checkout_on(disk[KeyOf[request.product_url].path], request, env, agent)

----------------------------------------------------------------------------
(* Checkout runs on the store: the specification of run_checkout *)

Requests ==
    {[product_url |-> ShopUrl, dry_run |-> d, saved_form_selectors |-> s.form,
      saved_payment_selectors |-> s.payment] :
        d \in BOOLEAN,
        s \in {[form |-> None, payment |-> None],
               [form |-> Some([email |-> "#r"]), payment |-> Some([card_number |-> "#r"])]}}

Envs ==
    {[llm |-> FALSE, browser_started |-> TRUE, injects |-> TRUE, saves |-> TRUE],
     [llm |-> TRUE, browser_started |-> FALSE, injects |-> TRUE, saves |-> TRUE],
     [llm |-> TRUE, browser_started |-> TRUE, injects |-> FALSE, saves |-> TRUE],
     [llm |-> TRUE, browser_started |-> TRUE, injects |-> TRUE, saves |-> FALSE],
     [llm |-> TRUE, browser_started |-> TRUE, injects |-> TRUE, saves |-> TRUE]}

NoScan == [raises |-> TRUE, form |-> EmptyDict, payment |-> EmptyDict, platform |-> "unknown"]
ShopifyScan ==
    [raises |-> FALSE, form |-> [email |-> "#s", zip_code |-> "#z"], payment |-> EmptyDict,
     platform |-> "shopify"]

AgentRun(raises, is_done, final_result, error, history, form, payment, final_url, scan) ==
    [raises |-> raises, is_done |-> is_done, final_result |-> final_result, error |-> error,
     history |-> history, fill_results |-> [form |-> form, payment |-> payment],
     final_url |-> final_url, scan |-> scan]

Agents ==
    {AgentRun(TRUE, FALSE, "", LongError, EmptyHistory, EmptyDict, EmptyDict, None, NoScan),
     AgentRun(FALSE, FALSE, "", DefaultError, EmptyHistory, EmptyDict, EmptyDict, None, NoScan),
     AgentRun(FALSE, FALSE, "DRY_RUN_COMPLETE", LongError, CheckoutHistory,
              [email |-> "#f"], [card_number |-> "#p"], Some(AddressUrl), ShopifyScan),
     AgentRun(FALSE, TRUE, "done", LongError, CheckoutHistory,
              [email |-> "#f"], [card_number |-> "#p"], Some(AddressUrl), ShopifyScan),
     AgentRun(FALSE, TRUE, "done", LongError, CartHistory,
              EmptyDict, EmptyDict, Some(ProductUrl), ShopifyScan),
     AgentRun(FALSE, TRUE, "done", LongError, EmptyHistory, EmptyDict, EmptyDict, None, NoScan)}

\* The records a run can find: what save_flow and record_failure write.
\* LearnedRecord is the record of a first successful run; the others follow
\* it by failures at the same or a later instant, and by a later success.
LearnedRecord ==
    save_flow_record(EmptyDict, KeyOf[ShopUrl].domain, [email |-> "#f", city |-> "#c"],
                     Some([card_number |-> "#p"]), Some(ExtractedOf[CheckoutHistory]),
                     Some("/checkout/"), Some("shopify"), Some(AddressUrl), 0)
SelectorsOnlyRecord ==
    save_flow_record(EmptyDict, KeyOf[ShopUrl].domain, [email |-> "#f"], Some(EmptyDict),
                     Some(<<>>), None, Some("unknown"), None, 0)
FailedRecord(flow, t) == record_failure_record(flow, Some(DefaultError), t)

\* the record after n more failures at instant t
RECURSIVE FailedTimes(_, _, _)
FailedTimes(flow, n, t) == IF n = 0 THEN flow ELSE FailedTimes(FailedRecord(flow, t), n - 1, t)

\* the record of a shop that failed nine times after the first success and
\* then succeeded again: two successes in eleven runs
RelearnedRecord ==
    save_flow_record(FailedTimes(LearnedRecord, 9, 0), KeyOf[ShopUrl].domain, [email |-> "#f"],
                     Some([card_number |-> "#p"]), Some(ExtractedOf[CheckoutHistory]),
                     Some("/checkout/"), Some("shopify"), Some(AddressUrl), MaxTime)

RunRecords ==
    {LearnedRecord, SelectorsOnlyRecord, RelearnedRecord}
    \cup {FailedRecord(LearnedRecord, t) : t \in 0..MaxTime}
    \cup {FailedRecord(FailedRecord(LearnedRecord, 0), t) : t \in 0..MaxTime}
    \cup {FailedRecord(SelectorsOnlyRecord, MaxTime)}

InitRun ==
    /\ disk \in {[p \in Paths |-> NoFile]} \cup {[p \in Paths |-> ObjectFile(flow)] : flow \in RunRecords}
    /\ now = MaxTime
    /\ ret = Ret("none", "none", None, FALSE, None)
    /\ hist = [p \in Paths |-> <<>>]
    /\ supplied = [p \in Paths |-> NoSupply]
    /\ EngineIdle

\* one run is followed from each record
RunCheckout ==
    /\ run.state = "none"
    /\ \E request \in Requests, env \in Envs, agent \in Agents : run_checkout(request, env, agent)
    /\ UNCHANGED <<arg, out, page>>

NextRun == RunCheckout

SpecRun == InitRun /\ [][NextRun]_vars

----------------------------------------------------------------------------
(* C11: a run on a record that needs re-learning *)

\* the run found a record whose health says needs_relearn and built its fill tools
RelearnRun ==
    /\ run.health # None
    /\ The(run.health).needs_relearn
    /\ run.tools

LoadedRecord == The(run.saved_flow)
RequestSeeds(key) == or_empty(The(run.request)[key])

\* nothing is handed to the replay compiler and the result reports no replayed step
NothingReplayed ==
    /\ run.saved_nav_steps = <<>>
    /\ run.compiled = None
    /\ run.replay_count = 0
    /\ run.replay_steps_used = 0

\* C11 as stated: in a run on a record that needs re-learning no cached
\* navigation step reaches the replay compiler (replay_steps_used = 0), and
\* every form and payment selector of the record is seeded into the fill tools.
C11_RecordSelectorsSeeded ==
    RelearnRun =>
        /\ NothingReplayed
        /\ \A k \in DOMAIN Get(LoadedRecord, "form_selectors", EmptyDict) :
               /\ k \in DOMAIN run.saved_form_sels
               /\ run.saved_form_sels[k] = LoadedRecord.form_selectors[k]
        /\ \A k \in DOMAIN Get(LoadedRecord, "payment_selectors", EmptyDict) :
               /\ k \in DOMAIN run.saved_payment_sels
               /\ run.saved_payment_sels[k] = LoadedRecord.payment_selectors[k]

\* C11 amended: in a run on a record that needs re-learning no cached
\* navigation step reaches the replay compiler (replay_steps_used = 0), and
\* the fill tools are seeded with every field of the record: with the
\* selector of the request where the request names the field, with the
\* selector of the record otherwise.
C11_RecordSelectorsSeededUnderRequest ==
    RelearnRun =>
        /\ NothingReplayed
        /\ \A k \in DOMAIN Get(LoadedRecord, "form_selectors", EmptyDict) :
               /\ k \in DOMAIN run.saved_form_sels
               /\ run.saved_form_sels[k] =
                      Get(RequestSeeds("saved_form_selectors"), k, LoadedRecord.form_selectors[k])
        /\ \A k \in DOMAIN Get(LoadedRecord, "payment_selectors", EmptyDict) :
               /\ k \in DOMAIN run.saved_payment_sels
               /\ run.saved_payment_sels[k] =
                      Get(RequestSeeds("saved_payment_selectors"), k, LoadedRecord.payment_selectors[k])

\* a run on a record that needs re-learning and holds steps and selectors,
\* with a request that names one of the record's fields and not another
C11_Witness ==
    /\ RelearnRun
    /\ Get(LoadedRecord, "navigation_steps", <<>>) # <<>>
    /\ "email" \in DOMAIN RequestSeeds("saved_form_selectors")
    /\ run.saved_form_sels["email"] = "#r"
    /\ run.saved_form_sels["city"] = "#c"
    /\ run.saved_payment_sels["card_number"] = "#r"
    /\ run.state = "succeeded"

----------------------------------------------------------------------------
(* The replay compiler: _build_page_replay_script and the script it returns *)

TargetCut == 60
maxAttempts == 12

\* lines 1094-1099: what the script keeps of a click step
replay_target(step) ==
    [selector |-> Get(step, "selector", Some("")),
     text |-> Prefix(Get(step, "text", ""), TargetCut),
     aria_label |-> Prefix(Get(step, "aria_label", ""), TargetCut),
     purpose |-> Get(step, "purpose", "other")]

\* lines 1088-1089: urlparse(url_at or product_url).path or '/'
group_path(step, product_url) ==
    LET url_at == Get(step, "url_at", Some(""))
        path == urlparse_path(IF Truthy(url_at) THEN The(url_at) ELSE product_url)
    IN  IF path = "" THEN "/" ELSE path

\* url_groups, a dict in insertion order: the sequence of its items
has_key(groups, path) == \E i \in 1..Len(groups) : groups[i].path = path
item(groups, path) == groups[CHOOSE i \in 1..Len(groups) : groups[i].path = path]

\* lines 1083-1099: the click steps grouped by the path they were recorded on
RECURSIVE url_groups(_, _, _)
url_groups(pre_form_steps, product_url, groups) ==
    IF pre_form_steps = <<>> THEN groups
    ELSE LET step == Head(pre_form_steps)
             path == group_path(step, product_url)
             keyed == IF has_key(groups, path) THEN groups
                      ELSE Append(groups, [path |-> path, targets |-> <<>>])
             i == CHOOSE i \in 1..Len(keyed) : keyed[i].path = path
         IN  IF Get(step, "action", "") # "click"
             THEN url_groups(Tail(pre_form_steps), product_url, groups)
             ELSE url_groups(Tail(pre_form_steps), product_url,
                             [keyed EXCEPT ![i].targets = Append(@, replay_target(step))])

_build_page_replay_script(pre_form_steps, product_url) ==
    url_groups(pre_form_steps, product_url, <<>>)

\* the first key that is a prefix wins, whatever its length
better_match_first_only(p, path, matchedLen) ==
    StartsWith(path, p) /\ matchedLen = 0

\* line 1155: path.indexOf(p) === 0 && p.length > matchedLen
better_match(p, path, matchedLen) ==
    StartsWith(path, p) /\ Len(p) > matchedLen

\* lines 1152-1159: the loop over the keys of steps, from key i on
RECURSIVE longest_prefix(_, _, _, _, _)
longest_prefix(steps, path, i, matchedPath, matchedLen) ==
    IF i > Len(steps) THEN matchedPath
    ELSE LET p == steps[i].path
         IN  IF better_match(p, path, matchedLen)
             THEN longest_prefix(steps, path, i + 1, Some(p), Len(p))
             ELSE longest_prefix(steps, path, i + 1, matchedPath, matchedLen)

\* lines 1152-1164: the key of the group to execute, None if there is none
matched_path(steps, path) ==
    LET matchedPath == longest_prefix(steps, path, 1, None, 0)
    IN  IF ~Truthy(matchedPath) /\ has_key(steps, path) THEN Some(path) ELSE matchedPath

\* the script runs whatever window.__cc_replay_done says
replay_done_ignored(document) == FALSE

\* line 1111: window.__cc_replay_done
replay_done(document) == document.done

\* lines 1111-1172 and 1205: one evaluation of the script on a document
evaluate(document, steps) ==
    LET matchedPath == matched_path(steps, document.path)
        targets == item(steps, The(matchedPath)).targets
        seen == [document EXCEPT !.evals = @ + 1]
    IN  IF replay_done(document) THEN seen
        ELSE IF matchedPath = None THEN [seen EXCEPT !.done = TRUE]
        ELSE [seen EXCEPT !.done = TRUE, !.started = @ + 1, !.matchedPath = matchedPath,
                          !.targets = targets, !.clickIndex = 0, !.attempts = 0,
                          !.timer = "executeNext",
                          !.polls = [i \in 1..Len(targets) |-> 0],
                          !.clicks = [i \in 1..Len(targets) |-> 0],
                          !.log = <<>>]

\* lines 1125-1149: dom tells which of the three strategies finds a visible element
doClick(target, dom) ==
    \/ Truthy(target.selector) /\ dom.selector
    \/ target.aria_label # "" /\ dom.aria_label
    \/ target.text # "" /\ dom.text

\* the step is given one more poll
gives_up_late(attempts) == attempts >= maxAttempts + 1

\* line 1195: attempts >= maxAttempts
gives_up(attempts) == attempts >= maxAttempts

\* lines 1178-1202: executeNext, called by the timer
executeNext(document) ==
    IF document.clickIndex >= Len(document.targets)
    THEN [document EXCEPT !.timer = "none"]
    ELSE [document EXCEPT !.attempts = 0, !.timer = "interval"]

\* lines 1188-1201: the callback of the interval
poll(document, dom) ==
    LET i == document.clickIndex + 1
        attempts == document.attempts + 1
        polled == [document EXCEPT !.attempts = attempts, !.polls[i] = @ + 1]
    IN  IF doClick(document.targets[i], dom)
        THEN [polled EXCEPT !.clicks[i] = @ + 1, !.clickIndex = @ + 1, !.timer = "executeNext",
                            !.log = Append(@, [index |-> i, event |-> "clicked"])]
        ELSE IF gives_up(attempts)
        THEN [polled EXCEPT !.clickIndex = @ + 1, !.timer = "executeNext",
                            !.log = Append(@, [index |-> i, event |-> "gave up"])]
        ELSE polled

----------------------------------------------------------------------------
(* The injected script in the browser tab: the specification of the replay *)

MaxLoads == 2       \* documents loaded in the tab
MaxEvals == 2       \* evaluations of the script on one document

ReplayClick(selector, text, aria_label, url_at) ==
    [action |-> "click", text |-> text, selector |-> selector, tag |-> "button",
     url_at |-> url_at, purpose |-> "other", aria_label |-> aria_label]

\* the pre-form steps of the records
ReplayStepLists ==
    {<<ReplayClick(Some("#cookie"), "Accept", "", Some("https://shop.nl")),
       ReplayClick(Some("#add"), "Add to cart", "", Some("https://shop.nl/cart"))>>,
     <<ReplayClick(Some("#pay"), "", "", Some("https://shop.nl/cart/items?id=2")),
       [action |-> "navigate", url |-> "https://shop.nl/cart", purpose |-> "navigation"],
       ReplayClick(None, "Checkout", "", Some("https://shop.nl/cart"))>>,
     <<ReplayClick(None, "", "Buy now", Some(ProductUrl)),
       ReplayClick(Some("#guest"), "Guest", "", None)>>,
     <<ReplayClick(Some(""), "", "", Some("https://shop.nl/cart")),
       ReplayClick(Some("#next"), "Next", "", Some("https://shop.nl/cart"))>>}

\* window.location.pathname of the documents
DocumentPaths == {"/", "/p", "/car", "/cart", "/cart/items/2"}

\* what the strategies of doClick find on the page at one poll
Doms == [selector : BOOLEAN, aria_label : BOOLEAN, text : BOOLEAN]

InitReplay ==
    /\ StoreIdle
    /\ arg \in {[pre_form_steps |-> l, product_url |-> join_chars(ShopUrl)] : l \in ReplayStepLists}
    /\ out = None

\* lines 651-652: the script is built and registered for every new document
Inject ==
    /\ out = None
    /\ out' = Some(_build_page_replay_script(arg.pre_form_steps, arg.product_url))
    /\ UNCHANGED arg
    /\ UNCHANGED otherVars

\* the targets clicked on the document and on those before it
ClickedSoFar(document) ==
    document.before \cup {<<The(document.matchedPath), i>> : i \in {j \in 1..Len(document.clicks) : document.clicks[j] > 0}}

\* the tab loads a document: its window is new, its timers are those of no
\* other document, and the registered script is evaluated on it
PageLoad ==
    /\ out # None
    /\ page.doc < MaxLoads
    /\ \E path \in DocumentPaths :
          page' = evaluate([NewDocument(page.doc + 1, path) EXCEPT !.before = ClickedSoFar(page)], The(out))
    /\ UNCHANGED <<arg, out, run>>
    /\ UNCHANGED storeVars

\* the script is evaluated once more on the document of the tab
Evaluate ==
    /\ out # None
    /\ page.doc > 0
    /\ page.evals < MaxEvals
    /\ page' = evaluate(page, The(out))
    /\ UNCHANGED <<arg, out, run>>
    /\ UNCHANGED storeVars

\* the timer set by setTimeout(executeNext, ...) fires
ExecuteNext ==
    /\ page.timer = "executeNext"
    /\ page' = executeNext(page)
    /\ UNCHANGED <<arg, out, run>>
    /\ UNCHANGED storeVars

\* the interval fires, on whatever the page shows at that moment
Poll ==
    /\ page.timer = "interval"
    /\ \E dom \in Doms : page' = poll(page, dom)
    /\ UNCHANGED <<arg, out, run>>
    /\ UNCHANGED storeVars

NextReplay ==
    \/ Inject
    \/ PageLoad
    \/ Evaluate
    \/ ExecuteNext
    \/ Poll

SpecReplay == InitReplay /\ [][NextReplay]_vars

\* the timers of a living document fire
SpecReplayLive == SpecReplay /\ WF_vars(ExecuteNext) /\ WF_vars(Poll)

----------------------------------------------------------------------------
(* C17: the group of the document *)

\* the keys of the compiled groups and those that are a prefix of the path of the document
GroupKeys == {The(out)[i].path : i \in 1..Len(The(out))}
PrefixKeys == {k \in GroupKeys : StartsWith(page.path, k)}
LongestPrefixKeys == {k \in PrefixKeys : \A j \in PrefixKeys : Len(j) <= Len(k)}

\* the script has been evaluated on the document of the tab
Evaluated == out # None /\ page.doc > 0

\* C17: on a loaded document the script has selected the group whose key is
\* the longest prefix of the path of the document, and executes its targets;
\* when no key is a prefix it has selected none and executes no step; a key
\* equal to the path, which the exact-match fallback would select, is the
\* longest-prefix choice itself.
C17_LongestPrefixGroup ==
    Evaluated =>
        /\ PrefixKeys # {} =>
               /\ page.matchedPath # None
               /\ LongestPrefixKeys = {The(page.matchedPath)}
               /\ page.targets = item(The(out), The(page.matchedPath)).targets
               /\ page.started = 1
        /\ PrefixKeys = {} =>
               /\ page.matchedPath = None
               /\ page.started = 0
               /\ page.timer = "none"
               /\ page.log = <<>>
        /\ page.path \in GroupKeys => page.matchedPath = Some(page.path)

\* a document under two keys of different lengths, the shorter compiled
\* first, whose longer group has been executed to its end
C17_Witness ==
    /\ Evaluated
    /\ Cardinality(PrefixKeys) = 2
    /\ The(out)[1].path = "/"
    /\ page.matchedPath = Some("/cart")
    /\ page.path = "/cart/items/2"
    /\ page.timer = "none"
    /\ Len(page.log) = Len(page.targets)
    /\ page.log # <<>>

----------------------------------------------------------------------------
(* C18: the automaton on one document *)

\* the automaton of the document has a timer pending / has left every target
AutomatonRunning == page.timer # "none"
AutomatonEnded ==
    /\ page.started = 1
    /\ page.timer = "none"
    /\ page.clickIndex = Len(page.targets)

\* the targets are left in recorded order, each after at most maxAttempts
\* polls: clicked once, by its last poll, or given up at the last of
\* maxAttempts polls without a click; the targets not reached are untouched
OrderedBoundedPolling ==
    /\ Len(page.log) = page.clickIndex
    /\ page.clickIndex <= Len(page.targets)
    /\ \A k \in 1..Len(page.log) :
           /\ page.log[k].index = k
           /\ page.log[k].event = "clicked" => page.clicks[k] = 1 /\ page.polls[k] \in 1..maxAttempts
           /\ page.log[k].event = "gave up" => page.clicks[k] = 0 /\ page.polls[k] = maxAttempts
    /\ \A i \in 1..Len(page.targets) :
           /\ page.polls[i] <= maxAttempts
           /\ page.clicks[i] <= 1
           /\ i > page.clickIndex => page.clicks[i] = 0
           /\ i > page.clickIndex + 1 => page.polls[i] = 0
           /\ i = page.clickIndex + 1 => page.polls[i] = page.attempts \/ page.timer = "executeNext"
           /\ i = page.clickIndex + 1 /\ page.timer = "interval" => page.polls[i] < maxAttempts

\* C18: on one document the automaton leaves the targets of the matched
\* group in recorded order, polls each at most 12 times, clicks it at most
\* once, on the first poll that finds a visible match, or gives it up at
\* the 12th failed poll; and whatever the polls find, an automaton that is
\* running reaches the end of its group unless the document is replaced.
C18_OrderedBoundedTerminating ==
    /\ []OrderedBoundedPolling
    /\ \A d \in 1..MaxLoads :
           (page.doc = d /\ AutomatonRunning) ~> (page.doc # d \/ AutomatonEnded)

\* an ended automaton of two targets: the first given up at its 12th poll,
\* the second clicked at a later poll than its first
C18_Witness ==
    /\ AutomatonEnded
    /\ Len(page.targets) = 2
    /\ page.log = <<[index |-> 1, event |-> "gave up"], [index |-> 2, event |-> "clicked"]>>
    /\ page.polls[1] = maxAttempts
    /\ page.polls[2] \in 2..(maxAttempts - 1)

----------------------------------------------------------------------------
(* C19: one automaton per document *)

\* C19: on every document the script has set window.__cc_replay_done at its
\* first evaluation and has started at most one automaton, however often it
\* is evaluated; and every loaded document whose path has a group has got
\* its own automaton, exactly one.
C19_OncePerDocument ==
    Evaluated =>
        /\ page.evals >= 1
        /\ page.done
        /\ page.started <= 1
        /\ page.started = IF matched_path(The(out), page.path) # None THEN 1 ELSE 0

\* the second document of the tab, evaluated twice, with the one automaton
\* it started at its load still polling
C19_Witness ==
    /\ Evaluated
    /\ page.doc = 2
    /\ page.evals = 2
    /\ page.started = 1
    /\ page.timer = "interval"
    /\ page.attempts > 0

----------------------------------------------------------------------------
(* The Form Fill Engine: FORM_FILL_JS *)

MAX_RETRIES == 2

\* String.prototype.trim, on the white space of the model: the blank
RECURSIVE trim_start(_)
trim_start(s) == IF s # "" /\ Head(s) = " " THEN trim_start(Tail(s)) ELSE s
RECURSIVE trim_end(_)
trim_end(s) ==
    IF s # "" /\ SubSeq(s, Len(s), Len(s)) = " " THEN trim_end(SubSeq(s, 1, Len(s) - 1)) ELSE s
trim(s) == trim_end(trim_start(s))

\* s.replace(/[\s\-\(\)]/g, '')
RECURSIVE unformatted(_)
unformatted(s) ==
    IF s = "" THEN ""
    ELSE IF Head(s) \in {" ", "-", "(", ")"} THEN unformatted(Tail(s))
    ELSE Head(s) \o unformatted(Tail(s))

\* the read-back has to match character by character
verifyField_exact(el_value, expectedValue) == trim(el_value) = trim(expectedValue)

\* lines 171-180, on the value read from the element
verifyField(el_value, expectedValue) ==
    LET actual == trim(el_value)
        expected == trim(expectedValue)
    IN  \/ expected = ""
        \/ actual = expected
        \/ unformatted(actual) = unformatted(expected)

\* what the element holds after a write of value
read_back(reaction, value) ==
    CASE reaction = "same" -> value
      [] reaction = "blank" -> ""
      [] reaction = "formatted" -> "(" \o value \o ") "
      [] reaction = "doubled" -> value \o value

\* the write counts as made whatever the element reads
write_found_unverified(el_value, value) == TRUE

\* lines 225, 238, 252: found = true under if (verifyField(el, value))
write_found(el_value, value) == verifyField(el_value, value)

\* the attempt makes one write only
retries_left_short(attempt) == attempt < MAX_RETRIES - 1

\* line 232: if (attempt < MAX_RETRIES), the second write of an attempt
retries_left(attempt) == attempt < MAX_RETRIES

\* lines 220-258: the writes on an input element, from attempt on; the
\* element reacts to the k-th write made on it by el.reads[k]
RECURSIVE fill_input(_, _, _, _, _)
fill_input(el, sel, value, attempt, writes) ==
    LET Write(strategy, k) == [sel |-> sel, strategy |-> strategy, el_value |-> read_back(el.reads[k], value)]
        native == Write("setNativeValue", 2 * attempt + 1)
        direct == Write("direct", 2 * attempt + 2)
        insert == Write("insertText", 2 * MAX_RETRIES + 2)
    IN  IF write_found(native.el_value, value)
        THEN [found |-> TRUE, retried |-> attempt > 0, verified |-> TRUE, writes |-> Append(writes, native)]
        ELSE IF retries_left(attempt)
        THEN IF write_found(direct.el_value, value)
             THEN [found |-> TRUE, retried |-> TRUE, verified |-> TRUE,
                   writes |-> writes \o <<native, direct>>]
             ELSE fill_input(el, sel, value, attempt + 1, writes \o <<native, direct>>)
        ELSE IF write_found(insert.el_value, value)
        THEN [found |-> TRUE, retried |-> TRUE, verified |-> TRUE, writes |-> writes \o <<native, insert>>]
        ELSE [found |-> FALSE, retried |-> FALSE, verified |-> FALSE, writes |-> writes \o <<native, insert>>]

\* lines 207-209: the option is the one asked for
option_matches(opt, v) ==
    \/ opt.value = v
    \/ trim(opt.textContent) = v
    \/ str_lower(opt.value) = str_lower(v)
    \/ str_lower(trim(opt.textContent)) = str_lower(v)

\* lines 204-217: an option of the element matches the code or the value
fill_select(el, field) ==
    LET tryValues == IF Truthy(field.selectCode) THEN <<The(field.selectCode), field.value>>
                     ELSE <<field.value>>
    IN  \E i \in 1..Len(tryValues) : \E j \in 1..Len(el.options) :
            option_matches(el.options[j], tryValues[i])

\* lines 192-267: the candidates of a field from the i-th on
RECURSIVE fill_field(_, _, _, _)
fill_field(field, dom, i, writes) ==
    IF i > Len(field.selectors)
    THEN [found |-> FALSE, sel |-> None, via_option |-> FALSE, retried |-> FALSE, verified |-> FALSE,
          writes |-> writes]
    ELSE LET sel == field.selectors[i]
             el == dom[sel]
             typed == fill_input(el, sel, field.value, 0, writes)
         IN  IF el.state # "visible"
             THEN \* querySelector gives null, or the element is disabled or hidden
                  fill_field(field, dom, i + 1, writes)
             ELSE IF field.isSelect \/ el.tagName = "SELECT"
             THEN IF el.tagName # "SELECT"
                  THEN \* el.options is undefined: the exception is caught
                       fill_field(field, dom, i + 1, writes)
                  ELSE IF fill_select(el, field)
                  THEN [found |-> TRUE, sel |-> Some(sel), via_option |-> TRUE, retried |-> FALSE,
                        verified |-> FALSE, writes |-> writes]
                  ELSE fill_field(field, dom, i + 1, writes)
             ELSE IF el.tagName # "INPUT"
             THEN \* the native setter of HTMLInputElement raises on another element
                  fill_field(field, dom, i + 1, writes)
             ELSE IF typed.found
             THEN [found |-> TRUE, sel |-> Some(sel), via_option |-> FALSE, retried |-> typed.retried,
                   verified |-> TRUE, writes |-> typed.writes]
             ELSE fill_field(field, dom, i + 1, typed.writes)

\* a field without a value is passed over in silence
no_value_unreported(result, name) == [result EXCEPT !.trace = Append(@, <<>>)]

\* line 189: missed.push(name + ' (no value)'); continue
no_value(result, name) ==
    [result EXCEPT !.missed = Append(@, name \o " (no value)"), !.trace = Append(@, <<>>)]

\* lines 187-274: the fields from the i-th on
RECURSIVE fill_fields(_, _, _, _)
fill_fields(fields, dom, i, result) ==
    IF i > Len(fields) THEN result
    ELSE LET field == fields[i]
             name == field.name
             done == fill_field(field, dom, 1, <<>>)
             push(list, cond) == IF cond THEN Append(list, name) ELSE list
         IN  IF field.value = "" /\ ~Truthy(field.selectCode)
             THEN fill_fields(fields, dom, i + 1, no_value(result, name))
             ELSE fill_fields(fields, dom, i + 1,
                              [result EXCEPT !.filled = push(@, done.found),
                                             !.missed = push(@, ~done.found),
                                             !.verified = push(@, done.verified),
                                             !.retried = push(@, done.retried),
                                             !.usedSelectors = IF done.found
                                                               THEN (name :> The(done.sel)) @@ @
                                                               ELSE @,
                                             !.trace = Append(@, done.writes)])

\* the script applied to the fields on a page; trace keeps, field by field,
\* the writes made and what the element held after each
FORM_FILL_JS(fields, dom) ==
    fill_fields(fields, dom, 1,
                [filled |-> <<>>, missed |-> <<>>, verified |-> <<>>, retried |-> <<>>,
                 total |-> Len(fields), usedSelectors |-> EmptyDict, trace |-> <<>>])

----------------------------------------------------------------------------
(* The fill engine on a page: the specification of FORM_FILL_JS *)

MaxFields == 2      \* fields of a call

Field(name, value, selectors, isSelect, selectCode) ==
    [name |-> name, value |-> value, selectors |-> selectors, isSelect |-> isSelect,
     selectCode |-> selectCode]

\* fields as build_field_list and build_payment_field_list make them: the
\* saved selector, if any, before the universal ones
FieldInputs ==
    {Field("email", "a@b", <<"#saved", "#field">>, FALSE, None),
     Field("email", " ", <<"#field">>, FALSE, None),
     Field("email", "", <<"#field">>, FALSE, None),
     Field("state", "Utrecht", <<"#field", "#saved">>, FALSE, None),
     Field("country", "Netherlands", <<"#saved", "#field">>, TRUE, Some("NL")),
     Field("country", "", <<"#field">>, TRUE, Some("be")),
     Field("phone", "06 12", <<"#saved">>, FALSE, None)}

FieldLists ==
    {l \in UNION {[1..n -> FieldInputs] : n \in 0..MaxFields} :
        \A i, j \in 1..Len(l) : l[i].name = l[j].name => i = j}

InputElement(reads) == [state |-> "visible", tagName |-> "INPUT", options |-> <<>>, reads |-> reads]
Always(reaction) == [k \in 1..(2 * MAX_RETRIES + 2) |-> reaction]

\* the elements a selector finds on the page
Elements ==
    {[state |-> "absent", tagName |-> "INPUT", options |-> <<>>, reads |-> Always("same")],
     [state |-> "hidden", tagName |-> "INPUT", options |-> <<>>, reads |-> Always("same")],
     InputElement(Always("same")),
     InputElement(Always("formatted")),
     InputElement(Always("blank")),
     InputElement(Always("doubled")),
     InputElement([Always("blank") EXCEPT ![2] = "same"]),
     InputElement([Always("doubled") EXCEPT ![5] = "same"]),
     InputElement([Always("blank") EXCEPT ![6] = "same"]),
     [state |-> "visible", tagName |-> "DIV", options |-> <<>>, reads |-> Always("blank")],
     [state |-> "visible", tagName |-> "SELECT",
      options |-> <<[value |-> "UT", textContent |-> " Utrecht "], [value |-> "NL", textContent |-> "Nederland"]>>,
      reads |-> Always("blank")]}

Pages == [{"#saved", "#field"} -> Elements]

InitFill ==
    /\ StoreIdle
    /\ arg \in {[fields |-> l, dom |-> d] : l \in FieldLists, d \in Pages}
    /\ out = None

\* line 457, line 574: page.evaluate(FORM_FILL_JS, fields_data)
FillForm ==
    /\ out = None
    /\ out' = Some(FORM_FILL_JS(arg.fields, arg.dom))
    /\ UNCHANGED arg
    /\ UNCHANGED otherVars

NextFill == FillForm

SpecFill == InitFill /\ [][NextFill]_vars

----------------------------------------------------------------------------
(* C20: what the fill engine reports as filled *)

Filled == The(out)
InList(list, name) == \E k \in 1..Len(list) : list[k] = name

\* the last write made for the i-th field is on the element that won it,
\* and what the element held right after it verifies against the value
LastWriteVerified(i) ==
    LET field == arg.fields[i]
        writes == Filled.trace[i]
        last == writes[Len(writes)]
    IN  /\ writes # <<>>
        /\ last.sel = Filled.usedSelectors[field.name]
        /\ verifyField(last.el_value, field.value)
        /\ InList(Filled.verified, field.name)

\* no write made for the i-th field verifies
EveryWriteFails(i) ==
    \A k \in 1..Len(Filled.trace[i]) :
        ~verifyField(Filled.trace[i][k].el_value, arg.fields[i].value)

\* the i-th field has something to fill in
HasValue(i) == arg.fields[i].value # "" \/ Truthy(arg.fields[i].selectCode)

\* the element that won the i-th field is a select element
WonBySelectElement(i) ==
    /\ arg.fields[i].name \in DOMAIN Filled.usedSelectors
    /\ arg.dom[Filled.usedSelectors[arg.fields[i].name]].tagName = "SELECT"

\* C20 as stated: a field that is not declared a select (isSelect false) is
\* reported in filled only if the last write on the winning element read
\* back verified; a field with a value whose every write fails verification
\* is in missed and not in filled.
C20_FilledOnlyIfVerified ==
    out # None =>
        \A i \in 1..Len(arg.fields) :
            LET field == arg.fields[i]
            IN  ~field.isSelect =>
                    /\ InList(Filled.filled, field.name) => LastWriteVerified(i)
                    /\ HasValue(i) /\ EveryWriteFails(i) =>
                           /\ InList(Filled.missed, field.name)
                           /\ ~InList(Filled.filled, field.name)

\* C20 amended: a field that is neither declared a select nor won by a
\* select element is reported in filled only if the last write on the
\* winning element read back verified; such a field with a value whose
\* every write fails verification is in missed and not in filled.
C20_FilledOnlyIfVerifiedOffSelects ==
    out # None =>
        \A i \in 1..Len(arg.fields) :
            LET field == arg.fields[i]
            IN  ~field.isSelect /\ ~WonBySelectElement(i) =>
                    /\ InList(Filled.filled, field.name) => LastWriteVerified(i)
                    /\ HasValue(i) /\ EveryWriteFails(i) =>
                           /\ InList(Filled.missed, field.name)
                           /\ ~InList(Filled.filled, field.name)

\* two fields on one page: the first fails every write on its saved
\* selector and is filled by the last strategy on the next, the second
\* fails every write on its only candidate and is missed
C20_Witness ==
    /\ out # None
    /\ Len(arg.fields) = 2
    /\ ~arg.fields[1].isSelect /\ ~arg.fields[2].isSelect
    /\ Filled.filled = <<arg.fields[1].name>>
    /\ Filled.missed = <<arg.fields[2].name>>
    /\ Filled.retried = Filled.filled
    /\ Len(Filled.trace[1]) = 4 * MAX_RETRIES + 4
    /\ Filled.trace[1][Len(Filled.trace[1])].strategy = "insertText"
    /\ Filled.usedSelectors = (arg.fields[1].name :> "#field")
    /\ Len(Filled.trace[2]) = 2 * MAX_RETRIES + 2
    /\ EveryWriteFails(2)

----------------------------------------------------------------------------
(* C21: the fill, verify, retry ladder on one element *)

\* the writes made for the i-th field on the element that sel finds
WritesOn(i, sel) ==
    LET on(w) == w.sel = sel
    IN  SelectSeq(Filled.trace[i], on)

\* the elements tried for the i-th field
Tried(i) == {arg.fields[i].selectors[k] : k \in 1..Len(arg.fields[i].selectors)}

\* the k-th write on an element verifies against the value of the field
WriteVerifies(i, sel, k) == verifyField(WritesOn(i, sel)[k].el_value, arg.fields[i].value)

\* C21 as stated: on one element the first write is by the native setter,
\* each later write of the ladder, at most MAX_RETRIES of them, is a direct
\* assignment, the text insertion comes once, after the last retry failed,
\* and no write follows a verified one.
C21_NativeThenDirectRetries ==
    out # None =>
        \A i \in 1..Len(arg.fields) : \A sel \in Tried(i) :
            LET ws == WritesOn(i, sel)
            IN  /\ Len(ws) <= MAX_RETRIES + 2
                /\ \A k \in 1..Len(ws) :
                       /\ ws[k].strategy = IF k = 1 THEN "setNativeValue"
                                           ELSE IF k <= MAX_RETRIES + 1 THEN "direct"
                                           ELSE "insertText"
                       /\ k < Len(ws) => ~WriteVerifies(i, sel, k)

\* C21 amended: on one element every attempt 0..MAX_RETRIES starts with a
\* write by the native setter, every attempt but the last follows it with a
\* direct assignment, and the text insertion comes once, after the native
\* write of the last attempt failed: at most 2 * MAX_RETRIES + 2 writes, no
\* write follows a verified one, and the ladder stops short of the text
\* insertion only at a verified write.
C21_NativeEveryAttempt ==
    out # None =>
        \A i \in 1..Len(arg.fields) : \A sel \in Tried(i) :
            LET ws == WritesOn(i, sel)
            IN  /\ Len(ws) <= 2 * MAX_RETRIES + 2
                /\ \A k \in 1..Len(ws) :
                       /\ ws[k].strategy = IF k = 2 * MAX_RETRIES + 2 THEN "insertText"
                                           ELSE IF k % 2 = 1 THEN "setNativeValue"
                                           ELSE "direct"
                       /\ k < Len(ws) => ~WriteVerifies(i, sel, k)
                /\ Len(ws) \in 1..(2 * MAX_RETRIES + 1) => WriteVerifies(i, sel, Len(ws))

\* one field on two elements: the first takes the whole ladder and fails
\* its text insertion too, the second is won by the native write of its
\* last attempt, after two direct assignments
C21_Witness ==
    /\ out # None
    /\ Len(arg.fields) = 1
    /\ Len(WritesOn(1, "#saved")) = 2 * MAX_RETRIES + 2
    /\ ~WriteVerifies(1, "#saved", 2 * MAX_RETRIES + 2)
    /\ Len(WritesOn(1, "#field")) = 2 * MAX_RETRIES + 1
    /\ WritesOn(1, "#field")[2 * MAX_RETRIES + 1].strategy = "setNativeValue"
    /\ WritesOn(1, "#field")[2 * MAX_RETRIES].strategy = "direct"
    /\ Filled.usedSelectors = (arg.fields[1].name :> "#field")
    /\ Filled.retried = <<arg.fields[1].name>>

----------------------------------------------------------------------------
(* verifyField on its own: the specification of the read-back check *)

MaxChars == 3       \* characters of a value

\* white space, a formatting character and two others
VerifyAlphabet == {" ", "-", "a", "b"}

RECURSIVE StringsOf(_)
StringsOf(n) == IF n = 0 THEN {""} ELSE {c \o s : c \in VerifyAlphabet, s \in StringsOf(n - 1)}

PhoneWritten == "+1 (555) 123-4567"
PhoneRead == "+15551234567"
NameWritten == "Jane Doe"
NameRead == "Jane"

InitVerify ==
    /\ StoreIdle
    /\ out = None
    /\ \/ \E n, m \in 0..MaxChars : \E a \in StringsOf(n) : \E e \in StringsOf(m) :
              arg = [el_value |-> a, expectedValue |-> e]
       \/ arg \in {[el_value |-> PhoneRead, expectedValue |-> PhoneWritten],
                   [el_value |-> PhoneWritten, expectedValue |-> PhoneRead],
                   [el_value |-> NameRead, expectedValue |-> NameWritten],
                   [el_value |-> NameWritten, expectedValue |-> NameRead]}

\* lines 225, 238, 252: verifyField(el, value)
Verify ==
    /\ out = None
    /\ out' = Some(verifyField(arg.el_value, arg.expectedValue))
    /\ UNCHANGED arg
    /\ UNCHANGED otherVars

NextVerify == Verify

SpecVerify == InitVerify /\ [][NextVerify]_vars

----------------------------------------------------------------------------
(* C22: what verifyField accepts *)

\* the two strings are equal once trimmed, or once trimmed and stripped of
\* white space, hyphens and parentheses
SameUpToFormatting(a, e) ==
    \/ trim(a) = trim(e)
    \/ unformatted(trim(a)) = unformatted(trim(e))

\* the written phone number is accepted, the shortened name is rejected
VerifyExamples ==
    /\ arg = [el_value |-> PhoneRead, expectedValue |-> PhoneWritten] => The(out)
    /\ arg = [el_value |-> NameRead, expectedValue |-> NameWritten] => ~The(out)

\* C22 as stated: verifyField accepts exactly when the two strings are the
\* same up to formatting; the written phone number is accepted and the
\* shortened name rejected; for a non-empty expected value the answer is the
\* same with the two arguments exchanged.
C22_AcceptsExactlyUpToFormatting ==
    out # None =>
        /\ The(out) = SameUpToFormatting(arg.el_value, arg.expectedValue)
        /\ VerifyExamples
        /\ arg.expectedValue # "" =>
               The(out) = verifyField(arg.expectedValue, arg.el_value)

\* C22 amended: verifyField accepts exactly when the expected value is empty
\* once trimmed or the two strings are the same up to formatting; the
\* written phone number is accepted and the shortened name rejected; when
\* neither argument is empty once trimmed the answer is the same with the
\* two arguments exchanged.
C22_AcceptsBlankExpectedOrUpToFormatting ==
    out # None =>
        /\ The(out) = (trim(arg.expectedValue) = ""
                       \/ SameUpToFormatting(arg.el_value, arg.expectedValue))
        /\ VerifyExamples
        /\ trim(arg.expectedValue) # "" /\ trim(arg.el_value) # "" =>
               The(out) = verifyField(arg.expectedValue, arg.el_value)

\* the written phone number read back without its formatting
C22_Witness ==
    /\ out = Some(TRUE)
    /\ arg = [el_value |-> PhoneRead, expectedValue |-> PhoneWritten]
    /\ trim(arg.el_value) # trim(arg.expectedValue)

----------------------------------------------------------------------------
(* The field lists of the fill tools: build_field_list, build_payment_field_list *)

\* the saved selector goes last
sels_saved_last(field_name, universal, saved) ==
    IF field_name \in DOMAIN saved THEN universal \o <<saved[field_name]>> ELSE universal

\* lines 284-289, lines 331-336: the saved selector, if any, then the universal ones
sels(field_name, universal, saved) ==
    IF field_name \in DOMAIN saved THEN <<saved[field_name]>> \o universal ELSE universal

\* lines 279-326
build_field_list(email, first_name, last_name, street, city, state, zip_code, country_code, c_name, phone, saved) ==
    <<Field("email", email,
            sels("email", <<"[autocomplete=\"email\"]", "input[name=\"email\"]", "input[type=\"email\"]",
                            "#email", "#checkout_email", "input[id*=\"email\"]">>, saved),
            FALSE, None),
      Field("country", c_name,
            sels("country", <<"select[autocomplete=\"country\"]", "select[name*=\"country\"]",
                              "select[autocomplete=\"country-name\"]", "#country",
                              "select[id*=\"country\"]">>, saved),
            TRUE, Some(country_code)),
      Field("first_name", first_name,
            sels("first_name", <<"[autocomplete=\"given-name\"]", "input[name*=\"first\"]",
                                 "input[name*=\"First\"]", "#firstName", "input[id*=\"firstName\"]">>, saved),
            FALSE, None),
      Field("last_name", last_name,
            sels("last_name", <<"[autocomplete=\"family-name\"]", "input[name*=\"last\"]",
                                "input[name*=\"Last\"]", "#lastName", "input[id*=\"lastName\"]">>, saved),
            FALSE, None),
      Field("address", street,
            sels("address", <<"[autocomplete=\"address-line1\"]", "input[name*=\"address1\"]",
                              "input[name*=\"street\"]", "#address1">>, saved),
            FALSE, None),
      Field("city", city,
            sels("city", <<"[autocomplete=\"address-level2\"]", "input[name*=\"city\"]", "#city">>, saved),
            FALSE, None),
      Field("state", state,
            sels("state", <<"[autocomplete=\"address-level1\"]", "select[name*=\"state\"]",
                            "select[name*=\"zone\"]", "input[name*=\"state\"]", "#province">>, saved),
            FALSE, None),
      Field("zip_code", zip_code,
            sels("zip_code", <<"[autocomplete=\"postal-code\"]", "input[name*=\"zip\"]",
                               "input[name*=\"postal\"]", "#postalCode">>, saved),
            FALSE, None),
      Field("phone", phone,
            sels("phone", <<"[autocomplete=\"tel\"]", "input[name*=\"phone\"]", "input[type=\"tel\"]",
                            "#phone">>, saved),
            FALSE, None)>>

\* lines 329-355: the fields carry no isSelect and no selectCode
build_payment_field_list(card_number, card_exp, card_cvv, card_name, saved) ==
    <<Field("card_number", card_number,
            sels("card_number", <<"[autocomplete=\"cc-number\"]", "input[name*=\"card_number\"]",
                                  "input[name*=\"cardNumber\"]", "input[name*=\"number\"]">>, saved),
            FALSE, None),
      Field("expiry", card_exp,
            sels("card_expiry", <<"[autocomplete=\"cc-exp\"]", "input[name*=\"expiry\"]",
                                  "input[name*=\"exp\"]", "input[placeholder*=\"MM\"]">>, saved),
            FALSE, None),
      Field("cvv", card_cvv,
            sels("card_cvv", <<"[autocomplete=\"cc-csc\"]", "input[name*=\"cvv\"]",
                               "input[name*=\"cvc\"]", "input[name*=\"verification\"]">>, saved),
            FALSE, None),
      Field("cardholder", card_name,
            sels("card_name", <<"[autocomplete=\"cc-name\"]", "input[name*=\"cardholder\"]",
                                "input[name*=\"card_name\"]", "input[name*=\"nameOnCard\"]">>, saved),
            FALSE, None)>>

\* the buyer of the runs: no state, as for a Dutch address
ShippingFields(saved) ==
    build_field_list("a@b", "Jane", "Doe", "Dam 1", "Utrecht", "", "3511", "NL", "Netherlands", "0612", saved)
PaymentFields(saved) == build_payment_field_list("4111", "12/30", "123", "Jane Doe", saved)

\* lines 446-465: what fill_shipping_form leaves in fill_results["form"]
fill_shipping_form(saved_form_sels, dom) == FORM_FILL_JS(ShippingFields(saved_form_sels), dom).usedSelectors

\* lines 565-578: what fill_payment_form leaves in fill_results["payment"]
fill_payment_form(saved_payment_sels, dom) == FORM_FILL_JS(PaymentFields(saved_payment_sels), dom).usedSelectors

----------------------------------------------------------------------------
(* Two visits to one shop: the specification of selector learning *)

MaxPresent == 3     \* elements of the checkout page that the fill tools can find

SelectorsOf(fields) == UNION {{fields[i].selectors[k] : k \in 1..Len(fields[i].selectors)} : i \in 1..Len(fields)}
UniversalSelectors == SelectorsOf(ShippingFields(EmptyDict)) \cup SelectorsOf(PaymentFields(EmptyDict))

\* the elements a shop may have
ShopSelectors ==
    {"#email", "input[type=\"email\"]", "select[name*=\"country\"]", "#city",
     "[autocomplete=\"cc-number\"]", "input[name*=\"exp\"]", "input[name*=\"cvv\"]",
     "[autocomplete=\"cc-name\"]"}

ShopElement(sel) ==
    IF StartsWith(sel, "select")
    THEN [state |-> "visible", tagName |-> "SELECT",
          options |-> <<[value |-> "NL", textContent |-> "Netherlands"]>>, reads |-> Always("same")]
    ELSE InputElement(Always("same"))

AbsentElement == [state |-> "absent", tagName |-> "INPUT", options |-> <<>>, reads |-> Always("same")]

ShopPage(present) ==
    [sel \in UniversalSelectors |-> IF sel \in present THEN ShopElement(sel) ELSE AbsentElement]

\* what the scan of the final page finds, under the names of DISCOVER_SELECTORS_JS
CardScan ==
    [raises |-> FALSE, form |-> [email |-> "[autocomplete=\"email\"]"],
     payment |-> [card_number |-> "input[name=\"number\"]", card_expiry |-> "[autocomplete=\"cc-exp\"]"],
     platform |-> "woocommerce"]

LearnInputs ==
    {[present |-> p, scan |-> s] :
        p \in {q \in SUBSET ShopSelectors : Cardinality(q) <= MaxPresent},
        s \in {NoScan, CardScan}}

\* a request that names no selector
PlainRequest ==
    [product_url |-> ShopUrl, dry_run |-> FALSE, saved_form_selectors |-> None,
     saved_payment_selectors |-> None]

AllWell == [llm |-> TRUE, browser_started |-> TRUE, injects |-> TRUE, saves |-> TRUE]

InitLearn ==
    /\ StoreIdle
    /\ arg \in LearnInputs
    /\ out = None

\* the first visit: no record, the agent calls both fill tools on the
\* checkout page and completes the order
FirstVisit ==
    /\ out = None
    /\ \E used \in {[form |-> fill_shipping_form(EmptyDict, ShopPage(arg.present)),
                     payment |-> fill_payment_form(EmptyDict, ShopPage(arg.present))]} :
           /\ run_checkout(PlainRequest, AllWell,
                           AgentRun(FALSE, TRUE, "done", LongError, CheckoutHistory, used.form,
                                    used.payment, Some(AddressUrl), arg.scan))
           /\ out' = Some([used |-> used, next |-> None])
    /\ UNCHANGED <<arg, page>>

\* the next visit, up to the field lists its fill tools are built on
NextVisit ==
    /\ out # None
    /\ The(out).next = None
    /\ \E agent \in Agents : run_checkout(PlainRequest, AllWell, agent)
    /\ out' = Some([The(out) EXCEPT !.next = Some([form |-> ShippingFields(run'.saved_form_sels),
                                                   payment |-> PaymentFields(run'.saved_payment_sels)])])
    /\ UNCHANGED <<arg, page>>

NextLearn == FirstVisit \/ NextVisit

SpecLearn == InitLearn /\ [][NextLearn]_vars

----------------------------------------------------------------------------
(* C23: a learned selector comes first on the next visit *)

Learned == The(out).used
NextFields == The(The(out).next)
VisitedTwice == out # None /\ The(out).next # None

\* the record of the shop as the next visit loaded it
RecordLoaded == The(run.saved_flow)

\* the field called name, in a field list
FieldNamed(fields, name) == fields[CHOOSE i \in 1..Len(fields) : fields[i].name = name]

\* C23: every selector the fill engine reported for a shipping or payment
\* field on the first visit is in the record under the name of the field,
\* and is the first candidate of that field on the next visit.
C23_LearnedSelectorFirst ==
    VisitedTwice =>
        /\ \A name \in DOMAIN Learned.form :
               /\ Get(RecordLoaded.form_selectors, name, "") = Learned.form[name]
               /\ FieldNamed(NextFields.form, name).selectors[1] = Learned.form[name]
        /\ \A name \in DOMAIN Learned.payment :
               /\ Get(RecordLoaded.payment_selectors, name, "") = Learned.payment[name]
               /\ FieldNamed(NextFields.payment, name).selectors[1] = Learned.payment[name]

----------------------------------------------------------------------------
(* C24: the selectors of the fill tools and the selectors of the scan *)

\* the first visit is over and the next has not begun
FirstVisitOver == out # None /\ The(out).next = None

\* the record the first visit wrote
RecordWritten == disk[KeyOf[ShopUrl].path].data

\* what the scan contributed to _discover_and_save
Scanned(bucket) == IF arg.scan.raises THEN EmptyDict ELSE arg.scan[bucket]

\* the field a key of the record stands for: the field of the list that
\* takes its saved selector from that key, or else the field of that name
LogicalField(fields(_), key) ==
    LET list == fields((key :> "#probe"))
        users == {i \in 1..Len(list) : list[i].selectors[1] = "#probe"}
    IN  IF users = {} THEN key ELSE list[CHOOSE i \in users : TRUE].name

\* the keys of saved that stand for a field the fill tool reported a
\* selector for hold that selector, and a key the tool did not report holds
\* the selector of the scan only if the tool reported none for its field
ToolReportedWins(fields(_), saved, tool, scanned) ==
    /\ \A k \in DOMAIN tool : Get(saved, k, "") = tool[k]
    /\ \A k \in DOMAIN saved \ DOMAIN tool :
           /\ saved[k] = scanned[k]
           /\ \A j \in DOMAIN tool : LogicalField(fields, j) # LogicalField(fields, k)

\* C24: in the record that _discover_and_save writes, every field the fill
\* engine reported a selector for holds the reported selector, and a
\* selector of the scan is saved only for a field the engine reported none for.
C24_ToolReportedAuthoritative ==
    FirstVisitOver =>
        /\ ToolReportedWins(ShippingFields, RecordWritten.form_selectors, Learned.form, Scanned("form"))
        /\ ToolReportedWins(PaymentFields, RecordWritten.payment_selectors, Learned.payment,
                            Scanned("payment"))

----------------------------------------------------------------------------
(* C25: the first successful run on a shop *)

\* the run succeeded and load_flow had found no record
FirstSuccess == run.state = "succeeded" /\ run.saved_flow = None

\* the file of the shop of the runs
RunFile == disk[KeyOf[ShopUrl].path]

\* a record of one success and no failure in a row
FreshRecord ==
    /\ RunFile.kind = "object"
    /\ RunFile.data.success_count = 1
    /\ RunFile.data.consecutive_failures = 0

\* the run found no selector and no navigation step
NothingLearned ==
    /\ The(run.learned).form = EmptyDict
    /\ The(run.learned).payment = EmptyDict
    /\ The(run.learned).steps = <<>>

\* C25 as stated: a successful run on a shop without a record reports
\* replay_steps_used = 0 and leaves a record of the shop with success_count
\* 1 and consecutive_failures 0.
C25_FirstSuccessLeavesRecord ==
    FirstSuccess =>
        /\ run.replay_steps_used = 0
        /\ FreshRecord

\* save_flow was called and wrote the file
SaveWritten == ret.op = "save_flow" /\ hist[KeyOf[ShopUrl].path] = <<"S">>

\* C25 amended: a successful run on a shop without a record reports
\* replay_steps_used = 0; if it found no selector and no navigation step it
\* does not call save_flow and the shop stays without a record; otherwise
\* it calls save_flow, which leaves a record with success_count 1 and
\* consecutive_failures 0 if the write succeeds and no record if it fails.
C25_FirstSuccessLeavesRecordIfLearned ==
    FirstSuccess =>
        /\ run.replay_steps_used = 0
        /\ NothingLearned => ret.op # "save_flow" /\ RunFile = NoFile
        /\ ~NothingLearned =>
               /\ ret.op = "save_flow"
               /\ IF SaveWritten THEN FreshRecord ELSE RunFile = NoFile

\* a first run that succeeds with selectors and steps and leaves the record
C25_Witness ==
    /\ FirstSuccess
    /\ ~NothingLearned
    /\ The(run.learned).steps # <<>>
    /\ FreshRecord
    /\ RunFile.data.navigation_steps = The(run.learned).steps
    /\ run.replay_steps_used = 0

----------------------------------------------------------------------------
(* C26: what is replayed on a healthy record, and what the result reports *)

\* the run found a record that needs no re-learning and went past the key check
HealthyVisit ==
    /\ run.health # None
    /\ ~The(run.health).needs_relearn
    /\ run.tools

\* C26: on a visit with a healthy record the replay compiler gets exactly
\* the pre-form steps of the record, and replay_steps_used in the result is
\* the number of click steps of the replay script that was injected, 0 if
\* none was.
C26_ReportsInjectedClicks ==
    HealthyVisit =>
        /\ run.compiled # None =>
               The(run.compiled) = _filter_pre_form_steps(Get(LoadedRecord, "navigation_steps", <<>>))
        /\ run.replay_steps_used = IF run.injected THEN click_count(The(run.compiled)) ELSE 0

----------------------------------------------------------------------------
(* C27: the failures a run records *)

\* the run is over and had found a record
RunOnRecord == run.state # "none" /\ run.saved_flow # None

FailuresOf(flow) == Get(flow, "failure_count", 0)
FailuresInARowOf(flow) == Get(flow, "consecutive_failures", 0)

\* the record holds one failure more than the run found
OneFailureMore ==
    /\ RunFile.kind = "object"
    /\ FailuresOf(RunFile.data) = FailuresOf(LoadedRecord) + 1
    /\ FailuresInARowOf(RunFile.data) = FailuresInARowOf(LoadedRecord) + 1

\* the record holds the failures the run found, and no more in a row
NoFailureMore ==
    /\ RunFile.kind = "object"
    /\ FailuresOf(RunFile.data) = FailuresOf(LoadedRecord)
    /\ FailuresInARowOf(RunFile.data) <= FailuresInARowOf(LoadedRecord)

----------------------------------------------------------------------------
(* C28: deleting a record *)

ShopPath == KeyOf[ShopDomain].path

\* The store with records coming and going: saves that differ in their
\* selectors and steps, failures, loads and deletions, all at one instant.
NextDelete ==
    \/ SaveCall("ok", FormArgs, {None, Some([card_number |-> "#a"])}, NavArgs,
                {[checkout_url_pattern |-> None, platform |-> Some("unknown"), final_url |-> None]})
    \/ FailureCall("ok")
    \/ DeleteCall
    \/ LoadCall

SpecDelete == Init /\ [][NextDelete]_vars

\* a record of one success and no failure, holding what the one call gave
\* and nothing else
FreshFrom(file, given) ==
    /\ file.kind = "object"
    /\ file.data.success_count = 1
    /\ file.data.failure_count = 0
    /\ file.data.consecutive_failures = 0
    /\ Pairs(file.data.form_selectors) = given.form
    /\ Pairs(file.data.payment_selectors) = given.payment
    /\ file.data.navigation_steps = IF given.steps = None THEN <<>> ELSE The(given.steps)

\* delete_flow on the shop returns whether its file was there and leaves no
\* file; on a shop without a file load_flow returns no flow, record_failure
\* writes nothing and save_flow writes a fresh record
DeleteStep ==
    /\ DeleteCall =>
           /\ ret'.deleted = (disk[ShopPath].kind # "absent")
           /\ disk'[ShopPath] = NoFile
           /\ supplied'[ShopPath] = NoSupply
    /\ disk[ShopPath] = NoFile /\ LoadCall => ret'.flow = None /\ ret'.raised = "none"
    /\ disk[ShopPath] = NoFile /\ FailureCall("ok") => disk'[ShopPath] = NoFile
    /\ disk[ShopPath] = NoFile /\ SaveCall("ok", FormArgs, PaymentArgs, NavArgs, MetaArgs) =>
           FreshFrom(disk'[ShopPath], supplied'[ShopPath])

\* C28: delete_flow returns true exactly when the file of the domain was
\* there, and removes it; from then on load_flow returns no flow,
\* record_failure changes nothing, and the next save_flow writes a record
\* with success_count 1 that holds the selectors and steps of that call only.
C28_DeleteLeavesNothing == [][DeleteStep]_vars

\* the record of the shop, saved and failed on, has just been deleted
C28_Witness ==
    /\ ret.op = "delete_flow"
    /\ ret.deleted
    /\ disk[ShopPath] = NoFile
    /\ hist[ShopPath] = <<>>

----------------------------------------------------------------------------
(* The key of a store operation: the specification of its first two lines *)

MaxCapitals == 1    \* capital letters in a spelling of the host name

UpperChar(c) ==
    IF \E i \in 1..26 : LowerCase[i] = c
    THEN UpperCase[CHOOSE i \in 1..26 : LowerCase[i] = c]
    ELSE c

\* the host name of the shop with up to n of its characters in upper case
HostSpellings(n) ==
    {[i \in 1..Len(ShopDomain) |-> IF i \in caps THEN UpperChar(ShopDomain[i]) ELSE ShopDomain[i]] :
        caps \in {c \in SUBSET (1..Len(ShopDomain)) : Cardinality(c) <= n}}

\* the host name as it is, or behind "www."
HostNames(n) ==
    {w \o h : w \in {<<>>, WwwDot, <<"W", "W", "W", ".">>}, h \in HostSpellings(n)}

\* full URLs of the site
SiteUrls(n) ==
    {s \o h \o p : s \in {<<"h", "t", "t", "p", "s", ":", "/", "/">>, <<"H", "T", "T", "P", ":", "/", "/">>},
                   h \in HostNames(n),
                   p \in {<<>>, <<"/", "p">>, <<"/", "P", "?", "q">>}}

InitKey ==
    /\ StoreIdle
    /\ out = None
    /\ \/ arg \in HostNames(MaxCapitals)
       \/ arg \in SiteUrls(MaxCapitals)

\* lines 62-63, 104-105, 154-155, 526-527: the domain and the file of a call
ResolveKey ==
    /\ out = None
    /\ out' = Some([domain |-> domain_of(arg), path |-> _flow_path(domain_of(arg))])
    /\ UNCHANGED arg
    /\ UNCHANGED otherVars

NextKey == ResolveKey

SpecKey == InitKey /\ [][NextKey]_vars

----------------------------------------------------------------------------
(* C29: one key for every spelling of a site *)

\* C29: a full URL, a bare host name, a host name behind "www." and a host
\* name in another letter case of the same site all resolve to one key, the
\* host name in lower case without "www.".
C29_OneKeyPerSite ==
    out # None =>
        /\ The(out).domain = ShopDomain
        /\ The(out).path = ShopDomain

----------------------------------------------------------------------------
(* Two overlapping runs on one shop: the specification of concurrent checkouts *)

\* The /checkout handler awaits run_checkout without a lock (server.py lines
\* 112-154), and run_checkout awaits the agent between its load_flow and
\* its save_flow or record_failure: two requests interleave between these
\* calls, each of which runs without interruption.
Attempts == {1, 2}

Idle == [pc |-> "idle", loaded |-> NoFile, found |-> NoFile, result |-> NoRun]

InitOverlap ==
    /\ disk \in {[p \in Paths |-> NoFile]}
                \cup {[p \in Paths |-> ObjectFile(flow)] :
                         flow \in {LearnedRecord, FailedRecord(LearnedRecord, 0)}}
    /\ now = 0
    /\ ret = Ret("none", "none", None, FALSE, None)
    /\ hist = [p \in Paths |-> <<>>]
    /\ supplied = [p \in Paths |-> NoSupply]
    /\ run = NoRun
    /\ page = NoPage
    /\ \E agents \in [Attempts -> Agents] : arg = [initial |-> disk[ShopPath], agents |-> agents]
    /\ out = [a \in Attempts |-> Idle]

\* line 370: the attempt loads the record of the shop
Begin(a) ==
    /\ out[a].pc = "idle"
    /\ load_flow(ShopUrl)
    /\ out' = [out EXCEPT ![a] = [@ EXCEPT !.pc = "running", !.loaded = disk[ShopPath]]]
    /\ UNCHANGED <<arg, run, page>>

\* lines 741-803: the agent of the attempt returns, and the attempt writes
\* the store from what it loaded when it began
End(a) ==
    /\ out[a].pc = "running"
    /\ run_checkout_on(out[a].loaded, PlainRequest, AllWell, arg.agents[a])
    /\ out' = [out EXCEPT ![a] = [pc |-> "done", loaded |-> @.loaded, found |-> disk[ShopPath],
                                  result |-> run']]
    /\ UNCHANGED <<arg, page>>

NextOverlap == \E a \in Attempts : Begin(a) \/ End(a)

SpecOverlap == InitOverlap /\ [][NextOverlap]_vars

\* lines 370-392, 645-647, 776-783: the steps a run on file hands to
\* _discover_and_save, with nothing amiss in its environment
attempt_nav_steps(file, agent) ==
    LET loaded == load_flow_result(file)
        saved_nav_steps == IF Truthy_flow(loaded)
                           THEN cached_nav_steps(The(loaded.value), check_flow_health(The(loaded.value)))
                           ELSE <<>>
        replay_count == IF saved_nav_steps # <<>>
                        THEN click_count(_filter_pre_form_steps(saved_nav_steps))
                        ELSE 0
    IN  IF replay_count > 0
        THEN Prefix(saved_nav_steps, replay_count) \o ExtractedOf[agent.history]
        ELSE ExtractedOf[agent.history]

\* lines 767-789, 807-811, 1213-1263: the file after the store call that ends
\* a run of a request that is no dry run
attempt_file(file, all_nav_steps, agent, t) ==
    LET error == IF agent.raises THEN agent.error
                 ELSE Prefix(IF agent.final_result = "" THEN DefaultError ELSE agent.error, ErrorCut)
        form == MergeDict(IF agent.scan.raises THEN EmptyDict ELSE agent.scan.form,
                          agent.fill_results.form)
        payment == MergeDict(IF agent.scan.raises THEN EmptyDict ELSE agent.scan.payment,
                             agent.fill_results.payment)
        platform == IF agent.scan.raises THEN "unknown" ELSE agent.scan.platform
    IN  IF agent.raises \/ ~agent.is_done
        THEN IF file.kind = "object"
             THEN ObjectFile(record_failure_record(file.data, Some(error), t))
             ELSE file
        ELSE IF worth_saving(form, payment, all_nav_steps)
        THEN ObjectFile(save_flow_record(save_flow_existing(file).value, KeyOf[ShopUrl].domain, form,
                                         Some(payment), Some(all_nav_steps),
                                         checkout_url_pattern_of(agent.final_url), Some(platform),
                                         agent.final_url, t))
        ELSE file

----------------------------------------------------------------------------
(* C30: overlapping runs against the runs one after the other *)

\* the file after a whole run on it
AfterRun(file, a) == attempt_file(file, attempt_nav_steps(file, arg.agents[a]), arg.agents[a], now)

\* the file after the run of attempt first and then the run of attempt second
Serial(first, second) == AfterRun(AfterRun(arg.initial, first), second)

BothDone == \A a \in Attempts : out[a].pc = "done"

\* the same file, but for the selectors stored under the keys of the
\* selector maps
SameButSelectors(f, g) ==
    IF f.kind # "object" \/ g.kind # "object" THEN f = g
    ELSE /\ DOMAIN f.data = DOMAIN g.data
         /\ \A k \in DOMAIN f.data \ {"form_selectors", "payment_selectors"} : f.data[k] = g.data[k]
         /\ DOMAIN f.data.form_selectors = DOMAIN g.data.form_selectors
         /\ DOMAIN f.data.payment_selectors = DOMAIN g.data.payment_selectors

StepsOf(file) == IF file.kind = "object" THEN Get(file.data, "navigation_steps", <<>>) ELSE <<>>

\* the attempt stored steps that begin with steps of the record it loaded
BuiltOnLoaded(a) == out[a].result.saved # None /\ out[a].result.replay_count > 0

\* C30: after two overlapping runs on one shop the record is, but for the
\* selectors under colliding keys, the record that the two runs leave in one
\* of the two orders one after the other, and a run that stored steps built
\* on the steps it loaded did so while the record still held those steps.
C30_OverlapIsSerial ==
    BothDone =>
        /\ \/ SameButSelectors(disk[ShopPath], Serial(1, 2))
           \/ SameButSelectors(disk[ShopPath], Serial(2, 1))
        /\ \A a \in Attempts :
               BuiltOnLoaded(a) => StepsOf(out[a].found) = StepsOf(out[a].loaded)

----------------------------------------------------------------------------
(* Replay on a record that the health check calls broken *)

\* the run loaded a record whose health check gives status broken
LoadedBroken == run.state # "none" /\ run.health # None /\ The(run.health).status = "broken"

\* C31: a run that loads a record whose health status is broken replays no
\* cached step of it: no step is compiled into a script and none is injected.
C31_BrokenSkipsReplay == LoadedBroken => run.compiled = None /\ ~run.injected

----------------------------------------------------------------------------
(* What a save leaves of the failures recorded before it *)

\* the field of a record as a reader finds it: the value, or None when the
\* record has no such key
FieldOf(flow, key) == IF key \in DOMAIN flow THEN Some(flow[key]) ELSE None

\* the fields that record_failure writes
FailureFields == {"failure_count", "last_failure", "last_error"}

\* C32: a successful save_flow on an existing record leaves failure_count,
\* last_failure and last_error as they were read before the save.
C32_SaveKeepsFailureFields ==
    [][\A p \in Paths :
          HasRecord(p) /\ hist'[p] = Append(hist[p], "S") =>
              /\ HasRecord(p)'
              /\ \A key \in FailureFields : FieldOf(Stored(p)', key) = FieldOf(Stored(p), key)]_vars

----------------------------------------------------------------------------
(* The store from the records of earlier runs: saves, failures, deletions *)
(* and loads on the records a shop can have                               *)

SpecStored == InitRun /\ [][NextDelete]_vars

\* lines 492-493: the rule for a shop that failed and never succeeded
no_success_rule(flow) ==
    Get(flow, "failure_count", 0) >= 3 /\ Get(flow, "success_count", 0) = 0

\* C33: every record the store holds has success_count >= 1, so the rule
\* 'failure_count >= 3 and success_count = 0' applies to no stored record.
C33_StoredRecordsSucceeded ==
    \A p \in Paths :
        HasRecord(p) => Stored(p).success_count >= 1 /\ ~no_success_rule(Stored(p))

\* a record written by the store that failed three times or more and that
\* the health check calls broken
C33_Witness ==
    \E p \in Paths :
        /\ HasRecord(p)
        /\ hist[p] # <<>>
        /\ Stored(p).failure_count >= 3
        /\ check_flow_health(Stored(p)).status = "broken"

----------------------------------------------------------------------------
(* The health of a record right after a save *)

\* the health check and the next run's cached steps of a record
HealthyForReplay(flow) ==
    /\ ~check_flow_health(flow).needs_relearn
    /\ check_flow_health(flow).status # "needs_relearn"
    /\ cached_nav_steps(flow, check_flow_health(flow)) = flow.navigation_steps

----------------------------------------------------------------------------
(* Re-learning and the last recorded outcome *)

\* the clock moved on between the last save and the last failure of the
\* record: the two times, where the record holds both, are not the same
ClockMovedOn(flow) == ~("last_failure" \in DOMAIN flow /\ flow["last_failure"] = flow["last_success"])

\* the last call that wrote the record was a save
SucceededLast(p) == hist[p] # <<>> /\ hist[p][Len(hist[p])] = "S"

\* C35: on a clock that moves on between the calls, every stored record has
\* needs_relearn true exactly when consecutive_failures >= 1 (one failure
\* after a save is enough), and the next run replays cached steps only of a
\* record whose last recorded outcome was a success.
C35_RelearnIffFailedLast ==
    \A p \in Paths :
        HasRecord(p) /\ ClockMovedOn(Stored(p)) =>
            /\ check_flow_health(Stored(p)).needs_relearn <=> Stored(p).consecutive_failures >= 1
            /\ cached_nav_steps(Stored(p), check_flow_health(Stored(p))) # <<>> => SucceededLast(p)

\* one failure recorded after a save, at a later time
C35_Witness ==
    \E p \in Paths :
        /\ HasRecord(p)
        /\ hist[p] = <<"S", "F">>
        /\ Stored(p).consecutive_failures = 1
        /\ StrLess(Stored(p).last_success, Stored(p).last_failure)
        /\ check_flow_health(Stored(p)).needs_relearn

----------------------------------------------------------------------------
(* The report of the fill engine *)

ListedNames(list) == {list[k] : k \in 1..Len(list)}
ListedOnce(list) == \A j, k \in 1..Len(list) : list[j] = list[k] => j = k

\* the field has an entry in missed: its name, or its name with the note
\* the engine adds for a field without a value
Missed(field) ==
    \/ InList(Filled.missed, field.name)
    \/ InList(Filled.missed, field.name \o " (no value)")

\* C36: the report partitions the fields: each field is in exactly one of
\* filled and missed (in missed under its name, followed by ' (no value)'
\* when it has no value), so |filled| + |missed| = total; verified is within
\* filled and retried within verified; no list names a field twice; and
\* usedSelectors has an entry exactly for the filled fields.
C36_ReportPartitionsFields ==
    out # None =>
        /\ \A i \in 1..Len(arg.fields) :
               InList(Filled.filled, arg.fields[i].name) <=> ~Missed(arg.fields[i])
        /\ Filled.total = Len(arg.fields)
        /\ Len(Filled.filled) + Len(Filled.missed) = Filled.total
        /\ ListedNames(Filled.verified) \subseteq ListedNames(Filled.filled)
        /\ ListedNames(Filled.retried) \subseteq ListedNames(Filled.verified)
        /\ \A list \in {Filled.filled, Filled.missed, Filled.verified, Filled.retried} : ListedOnce(list)
        /\ DOMAIN Filled.usedSelectors = ListedNames(Filled.filled)

\* two fields: one without a value, one filled by an option and so not
\* verified; or one filled on a retry and one missed after all its writes
C36_Witness ==
    /\ out # None
    /\ Len(arg.fields) = 2
    /\ \/ /\ Filled.missed = <<"email (no value)">>
          /\ Filled.filled = <<"country">>
          /\ Filled.verified = <<>>
       \/ /\ Len(Filled.missed) = 1
          /\ Filled.retried # <<>>
          /\ Filled.retried = Filled.filled

----------------------------------------------------------------------------
(* What the fill engine leaves in the elements it gave up on *)

\* the writes made for the i-th field on the element of a selector
WritesTo(i, sel) == SelectSeq(Filled.trace[i], LAMBDA w : w.sel = sel)

\* the element of the selector holds a written value after the i-th field
HoldsWritten(i, sel) ==
    /\ WritesTo(i, sel) # <<>>
    /\ WritesTo(i, sel)[Len(WritesTo(i, sel))].el_value # ""

\* the i-th field was filled on the element of the selector
FilledOn(i, sel) ==
    /\ arg.fields[i].name \in DOMAIN Filled.usedSelectors
    /\ Filled.usedSelectors[arg.fields[i].name] = sel

\* C37: filling a field leaves a written value in at most one element, the
\* one the field was filled on: an element whose writes all failed
\* verification holds no written value once the engine has moved on.
C37_GivenUpElementLeftClean ==
    out # None =>
        \A i \in 1..Len(arg.fields) : \A sel \in DOMAIN arg.dom :
            HoldsWritten(i, sel) => FilledOn(i, sel)

----------------------------------------------------------------------------
(* Clicks over the documents of one attempt *)

\* the i-th target of the group of the document has been clicked on it
ClickedHere(i) == page.clicks[i] > 0

\* C38: over the documents loaded during one attempt each cached click step
\* is clicked at most once: a target clicked on the document of the tab was
\* not clicked on a document the tab held earlier, whatever paths matched.
C38_EachStepClickedOnce ==
    \A i \in 1..Len(page.clicks) :
        ClickedHere(i) => page.clicks[i] = 1 /\ <<The(page.matchedPath), i>> \notin page.before

----------------------------------------------------------------------------
(* The steps saved after a run that replayed *)

\* the run succeeded, its replay script was injected, and it saved steps
ReplayedAndSaved == run.state = "succeeded" /\ run.injected /\ run.saved # None

\* C39: the steps saved after a successful run that replayed cached steps
\* are the pre-form steps handed to the replay compiler, in their order,
\* followed by the steps extracted from the trace of the agent.
C39_SavedStepsStartWithReplayed ==
    ReplayedAndSaved =>
        \E history \in RunHistories : The(run.saved) = The(run.compiled) \o ExtractedOf[history]

----------------------------------------------------------------------------
(* Clicks on elements without accessible text *)

\* action i of the trace is a click on an element that has no accessible text
TextlessClick(i) ==
    /\ "click" \in DOMAIN Trace[i]
    /\ Trace[i].interacted_element # None
    /\ The(Trace[i].interacted_element).ax_name = ""

\* the selector built for the element of action i
SelectorAt(i) ==
    _build_selector(The(Trace[i].interacted_element).node_name, The(Trace[i].interacted_element).attributes)

\* the click steps of the output
ClickSteps == {k \in 1..Len(Extracted) : IsClick(Extracted[k])}

\* C40: every click step of the output has a text that is not empty; the
\* purpose of a click without text is 'other', so a click on an element
\* without accessible text yields no step, even when the element has an id.
C40_ClickStepsHaveText ==
    Applied /\ ~arg.raises =>
        /\ \A k \in ClickSteps : Extracted[k].text # ""
        /\ \A i \in 1..Len(Trace) :
               TextlessClick(i) =>
                   /\ _guess_purpose("", The(Trace[i].interacted_element).attributes, UrlAt(i)) = "other"
                   /\ \A k \in ClickSteps : Extracted[k].selector # SelectorAt(i)

\* a trace with a click on a button that has an id and no text, and a click
\* on a button with text: only the second is in the output
C40_Witness ==
    /\ Applied
    /\ ~arg.raises
    /\ \E i \in 1..Len(Trace) : TextlessClick(i) /\ SelectorAt(i) = Some("#x")
    /\ Cardinality(ClickSteps) = 1
    /\ \E i \in 1..Len(Trace) : Trace[i] = RawAction("click", [index |-> 1], Some(BuyButton))

====
